---- MODULE Spec2Model ----
(***************************************************************************)
(* Model of the metadata content-search aggregator (searchCodeContent in   *)
(* src/app/index.tsx) of SalesforceMetadataSearch: nine concurrent search  *)
(* branches that share one result list and one global, case-insensitive    *)
(* RegExp object, followed by de-duplication, ranking and truncation.      *)
(*                                                                         *)
(* Texts are TLA+ strings; a character is a string of length one and       *)
(* JavaScript's 0-based offsets are kept wherever the code computes with   *)
(* them (lastIndex, indexOf, substring).                                   *)
(***************************************************************************)
EXTENDS Integers, Sequences, FiniteSets, TLC

Min(a, b) == IF a <= b THEN a ELSE b
Max(a, b) == IF a >= b THEN a ELSE b

(***************************************************************************)
(* String primitives of the JavaScript runtime used by the code.           *)
(***************************************************************************)
Letters ==
  <<"a", "b", "c", "d", "e", "f", "g", "h", "i", "j", "k", "l", "m",
    "n", "o", "p", "q", "r", "s", "t", "u", "v", "w", "x", "y", "z">>
Capitals ==
  <<"A", "B", "C", "D", "E", "F", "G", "H", "I", "J", "K", "L", "M",
    "N", "O", "P", "Q", "R", "S", "T", "U", "V", "W", "X", "Y", "Z">>
Digits == {"0", "1", "2", "3", "4", "5", "6", "7", "8", "9"}

LetterSet  == {Letters[k] : k \in 1..26}
CapitalSet == {Capitals[k] : k \in 1..26}

\* s.charAt(i), i 0-based
CharAt(s, i) == SubSeq(s, i + 1, i + 1)

\* s.substring(a, b), a and b 0-based, b exclusive
Substring(s, a, b) == SubSeq(s, a + 1, b)

LowerChar(c) ==
  IF c \in CapitalSet
  THEN Letters[CHOOSE k \in 1..26 : Capitals[k] = c]
  ELSE c

RECURSIVE toLowerCase(_)
toLowerCase(s) ==
  IF s = "" THEN "" ELSE LowerChar(Head(s)) \o toLowerCase(Tail(s))

IsWhite(c) == c \in {" ", "\n", "\t"}

\* s.trim()
trim(s) ==
  LET idx == {i \in 0..(Len(s) - 1) : ~IsWhite(CharAt(s, i))}
  IN  IF idx = {} THEN ""
      ELSE Substring(s, CHOOSE i \in idx : \A j \in idx : i <= j,
                        (CHOOSE i \in idx : \A j \in idx : i >= j) + 1)

\* hay.indexOf(needle, from): 0-based offset of the first occurrence at or
\* after from, -1 when there is none
RECURSIVE indexOf(_, _, _)
indexOf(hay, needle, from) ==
  IF from + Len(needle) > Len(hay) THEN -1
  ELSE IF Substring(hay, from, from + Len(needle)) = needle THEN from
  ELSE indexOf(hay, needle, from + 1)

\* s.split('\n')
RECURSIVE split(_)
split(s) ==
  LET nl == indexOf(s, "\n", 0)
  IN  IF nl = -1 THEN <<s>>
      ELSE <<Substring(s, 0, nl)>> \o split(Substring(s, nl + 1, Len(s)))

\* a.localeCompare(b) < 0, = 0, > 0 as -1, 0, 1.  Names in the model are
\* lower-case letters only, for which the collation is the dictionary order.
CharRank(c) ==
  IF c \in LetterSet THEN CHOOSE k \in 1..26 : Letters[k] = c ELSE 27

RECURSIVE localeCompare(_, _)
localeCompare(a, b) ==
  IF a = "" /\ b = "" THEN 0
  ELSE IF a = "" THEN -1
  ELSE IF b = "" THEN 1
  ELSE IF CharRank(Head(a)) < CharRank(Head(b)) THEN -1
  ELSE IF CharRank(Head(a)) > CharRank(Head(b)) THEN 1
  ELSE localeCompare(Tail(a), Tail(b))

(***************************************************************************)
(* searchRegex = new RegExp(escaped(searchTerm), 'gi').  The pattern is    *)
(* the term taken literally; the g flag makes test() start at lastIndex    *)
(* and leave lastIndex behind the match (0 after a failed test).           *)
(***************************************************************************)
RegexTest(text, term, lastIndex) ==
  LET at == IF lastIndex > Len(text) THEN -1
            ELSE indexOf(toLowerCase(text), toLowerCase(term), lastIndex)
  IN  [matched   |-> at # -1,
       lastIndex |-> IF at = -1 THEN 0 ELSE at + Len(term)]

(***************************************************************************)
(* Program constants of searchCodeContent.                                 *)
(***************************************************************************)
maxMatches       == 15
maxXmlMatches    == 10
batchSize        == 3
SnippetWindow    == 50
XmlSnippetWindow == 60
DescriptionLimit == 100
ResultLimit      == 50

\* `${n}` for a number n
Num(n) == ToString(n)

\* The snippet of a matching line: up to window characters on either side of
\* the first occurrence of the term, trimmed, with an ellipsis where clamped.
Snippet(line, term, window) ==
  LET matchIndex == indexOf(toLowerCase(line), toLowerCase(term), 0)
      start      == Max(0, matchIndex - window)
      end        == Min(Len(line), matchIndex + Len(term) + window)
  IN  (IF start > 0 THEN "..." ELSE "")
        \o trim(Substring(line, start, end))
        \o (IF end < Len(line) THEN "..." ELSE "")

\* contextLines.join('\n'): previous line (if non-blank), the line itself and
\* the next line (if non-blank), each prefixed with its 1-based number.
\* i is the 0-based index of the matching line.
ContextBlock(lines, i) ==
  (IF i > 0 /\ trim(lines[i]) # ""
     THEN Num(i) \o ": " \o trim(lines[i]) \o "\n" ELSE "")
  \o Num(i + 1) \o ": " \o trim(lines[i + 1])
  \o (IF i < Len(lines) - 1 /\ trim(lines[i + 2]) # ""
        THEN "\n" \o Num(i + 2) \o ": " \o trim(lines[i + 2]) ELSE "")

\* The loop of searchInContent: i is the 0-based line index, li the
\* lastIndex of the shared searchRegex.
RECURSIVE ScanLines(_, _, _, _, _, _)
ScanLines(lines, i, matches, li, term, type) ==
  IF ~(i < Len(lines) /\ Len(matches) < maxMatches)
  THEN [matches |-> matches, lastIndex |-> li]
  ELSE LET line == lines[i + 1]
           t    == RegexTest(line, term, li)
       IN  IF t.matched
           THEN ScanLines(lines, i + 1,
                  Append(matches,
                    [line    |-> i + 1,
                     content |-> ContextBlock(lines, i),
                     snippet |-> Snippet(line, term, SnippetWindow),
                     context |-> "Line " \o Num(i + 1) \o " (" \o type \o ")"]),
                  t.lastIndex, term, type)
           ELSE ScanLines(lines, i + 1, matches, t.lastIndex, term, type)

\* searchInContent: st = [results, lastIndex] is the state shared by the
\* branches (the results array and searchRegex.lastIndex).
searchInContent(st, term, content, fileName, type, name, label, id) ==
  IF content = "" THEN st
  ELSE LET r == ScanLines(split(content), 0, <<>>, st.lastIndex, term, type)
       IN  [results   |->
              IF Len(r.matches) > 0
              THEN Append(st.results,
                     [id |-> id, type |-> type, name |-> name, label |-> label,
                      fileName |-> fileName, matches |-> r.matches,
                      totalMatches |-> Len(r.matches)])
              ELSE st.results,
            lastIndex |-> r.lastIndex]

\* [a, b, c].filter(Boolean).join(' ')
RECURSIVE JoinTruthy(_)
JoinTruthy(fields) ==
  IF fields = <<>> THEN ""
  ELSE LET rest == JoinTruthy(Tail(fields))
       IN  IF Head(fields) = "" THEN rest
           ELSE IF rest = "" THEN Head(fields)
           ELSE Head(fields) \o " " \o rest

\* d.length > 100 ? d.substring(0, 100) + '...' : d
Shorten(d) ==
  IF Len(d) > DescriptionLimit
  THEN Substring(d, 0, DescriptionLimit) \o "..." ELSE d

(***************************************************************************)
(* Branch 1 and 2: Apex classes and Apex triggers (body scan).             *)
(***************************************************************************)
RECURSIVE ApexClassLoop(_, _, _)
ApexClassLoop(st, term, records) ==
  IF records = <<>> THEN st
  ELSE LET cls == Head(records)
       IN  IF cls.Body # "" /\ trim(cls.Body) # ""
           THEN LET t == RegexTest(cls.Body, term, st.lastIndex)
                    s1 == [st EXCEPT !.lastIndex = t.lastIndex]
                IN  ApexClassLoop(
                      IF t.matched
                      THEN searchInContent(s1, term, cls.Body,
                             cls.Name \o ".cls", "apex-class", cls.Name,
                             cls.Name, "apex-class-" \o cls.Id)
                      ELSE s1,
                      term, Tail(records))
           ELSE ApexClassLoop(st, term, Tail(records))

RECURSIVE ApexTriggerLoop(_, _, _)
ApexTriggerLoop(st, term, records) ==
  IF records = <<>> THEN st
  ELSE LET trigger == Head(records)
       IN  IF trigger.Body # "" /\ trim(trigger.Body) # ""
           THEN LET t == RegexTest(trigger.Body, term, st.lastIndex)
                    s1 == [st EXCEPT !.lastIndex = t.lastIndex]
                IN  ApexTriggerLoop(
                      IF t.matched
                      THEN searchInContent(s1, term, trigger.Body,
                             trigger.Name \o ".trigger", "apex-trigger",
                             trigger.Name,
                             trigger.Name \o " (" \o trigger.TableEnumOrId \o ")",
                             "apex-trigger-" \o trigger.Id)
                      ELSE s1,
                      term, Tail(records))
           ELSE ApexTriggerLoop(st, term, Tail(records))

(***************************************************************************)
(* Name/label branches.  Each tests the space-joined fields with the       *)
(* shared searchRegex and then each field separately; FieldMatches runs    *)
(* the separate tests in order.  A field spec is [value, line, prefix,     *)
(* snippet, context].                                                      *)
(***************************************************************************)
RECURSIVE FieldMatches(_, _, _, _)
FieldMatches(fields, term, li, matches) ==
  IF fields = <<>> THEN [matches |-> matches, lastIndex |-> li]
  ELSE LET f == Head(fields)
       IN  IF f.value = "" THEN FieldMatches(Tail(fields), term, li, matches)
           ELSE LET t == RegexTest(f.value, term, li)
                IN  FieldMatches(Tail(fields), term, t.lastIndex,
                      IF t.matched
                      THEN Append(matches,
                             [line    |-> f.line,
                              content |-> f.prefix \o f.value,
                              snippet |-> f.snippet,
                              context |-> f.context])
                      ELSE matches)

\* One record of a name/label branch: joined is the searchable content,
\* fields the separately tested fields, entry the result without matches.
NameRecord(st, term, joined, fields, entry) ==
  LET t == RegexTest(joined, term, st.lastIndex)
  IN  IF ~t.matched THEN [st EXCEPT !.lastIndex = t.lastIndex]
      ELSE LET m == FieldMatches(fields, term, t.lastIndex, <<>>)
           IN  [results   |-> Append(st.results,
                                [id |-> entry.id, type |-> entry.type,
                                 name |-> entry.name, label |-> entry.label,
                                 fileName |-> entry.fileName,
                                 matches |-> m.matches,
                                 totalMatches |-> Len(m.matches)]),
                lastIndex |-> m.lastIndex]

\* Branch 4: Lightning web components
RECURSIVE LwcLoop(_, _, _)
LwcLoop(st, term, records) ==
  IF records = <<>> THEN st
  ELSE LET lwc == Head(records)
       IN  LwcLoop(
             NameRecord(st, term,
               JoinTruthy(<<lwc.DeveloperName, lwc.MasterLabel, lwc.Description>>),
               << [value |-> lwc.DeveloperName, line |-> 1,
                   prefix |-> "Component Name: ",
                   snippet |-> lwc.DeveloperName, context |-> "LWC Name"],
                  [value |-> lwc.MasterLabel, line |-> 2, prefix |-> "Label: ",
                   snippet |-> lwc.MasterLabel, context |-> "LWC Label"],
                  [value |-> lwc.Description, line |-> 3,
                   prefix |-> "Description: ",
                   snippet |-> Shorten(lwc.Description),
                   context |-> "LWC Description"] >>,
               [id |-> "lwc-bundle-" \o lwc.Id, type |-> "lwc-bundle",
                name |-> lwc.DeveloperName,
                label |-> IF lwc.MasterLabel # "" THEN lwc.MasterLabel
                          ELSE lwc.DeveloperName,
                fileName |-> lwc.DeveloperName \o ".js"]),
             term, Tail(records))

\* Branch 5: Aura components
RECURSIVE AuraLoop(_, _, _)
AuraLoop(st, term, records) ==
  IF records = <<>> THEN st
  ELSE LET aura == Head(records)
       IN  AuraLoop(
             NameRecord(st, term,
               JoinTruthy(<<aura.DeveloperName, aura.MasterLabel, aura.Description>>),
               << [value |-> aura.DeveloperName, line |-> 1,
                   prefix |-> "Component Name: ",
                   snippet |-> aura.DeveloperName, context |-> "Aura Name"],
                  [value |-> aura.MasterLabel, line |-> 2, prefix |-> "Label: ",
                   snippet |-> aura.MasterLabel, context |-> "Aura Label"],
                  [value |-> aura.Description, line |-> 3,
                   prefix |-> "Description: ",
                   snippet |-> Shorten(aura.Description),
                   context |-> "Aura Description"] >>,
               [id |-> "aura-bundle-" \o aura.Id, type |-> "aura-bundle",
                name |-> aura.DeveloperName,
                label |-> IF aura.MasterLabel # "" THEN aura.MasterLabel
                          ELSE aura.DeveloperName,
                fileName |-> aura.DeveloperName \o ".cmp"]),
             term, Tail(records))

\* Branch 6: validation rules (ErrorDisplayField is part of the joined text
\* but is not tested separately)
RECURSIVE ValidationLoop(_, _, _)
ValidationLoop(st, term, records) ==
  IF records = <<>> THEN st
  ELSE LET rule == Head(records)
       IN  ValidationLoop(
             NameRecord(st, term,
               JoinTruthy(<<rule.ValidationName, rule.ErrorMessage,
                            rule.ErrorDisplayField>>),
               << [value |-> rule.ValidationName, line |-> 1,
                   prefix |-> "Rule Name: ",
                   snippet |-> rule.ValidationName,
                   context |-> "Validation Rule Name"],
                  [value |-> rule.ErrorMessage, line |-> 2,
                   prefix |-> "Error Message: ",
                   snippet |-> Shorten(rule.ErrorMessage),
                   context |-> "Error Message"] >>,
               [id |-> "validation-rule-" \o rule.Id, type |-> "validation-rule",
                name |-> rule.ValidationName, label |-> rule.ValidationName,
                fileName |-> rule.ValidationName \o ".validationRule"]),
             term, Tail(records))

\* Branch 7: page layouts (name test only)
RECURSIVE LayoutLoop(_, _, _)
LayoutLoop(st, term, records) ==
  IF records = <<>> THEN st
  ELSE LET layout == Head(records)
       IN  IF layout.Name = "" THEN LayoutLoop(st, term, Tail(records))
           ELSE LET t == RegexTest(layout.Name, term, st.lastIndex)
                IN  LayoutLoop(
                      [results   |->
                         IF t.matched
                         THEN Append(st.results,
                                [id |-> "page-layout-" \o layout.Id,
                                 type |-> "page-layout",
                                 name |-> layout.Name,
                                 label |-> layout.Name \o " ("
                                             \o layout.TableEnumOrId \o ")",
                                 fileName |-> layout.TableEnumOrId \o "."
                                                \o layout.Name \o ".layout",
                                 matches |->
                                   << [line |-> 1,
                                       content |-> "Layout Name: " \o layout.Name,
                                       snippet |-> layout.Name,
                                       context |-> "Page Layout Name"] >>,
                                 totalMatches |-> 1])
                         ELSE st.results,
                       lastIndex |-> t.lastIndex],
                      term, Tail(records))

\* Branch 8: record types
RECURSIVE RecordTypeLoop(_, _, _)
RecordTypeLoop(st, term, records) ==
  IF records = <<>> THEN st
  ELSE LET recordType == Head(records)
       IN  RecordTypeLoop(
             NameRecord(st, term,
               JoinTruthy(<<recordType.Name, recordType.Description>>),
               << [value |-> recordType.Name, line |-> 1,
                   prefix |-> "Record Type Name: ",
                   snippet |-> recordType.Name,
                   context |-> "Record Type Name"],
                  [value |-> recordType.Description, line |-> 2,
                   prefix |-> "Description: ",
                   snippet |-> Shorten(recordType.Description),
                   context |-> "Record Type Description"] >>,
               [id |-> "record-type-" \o recordType.Id, type |-> "record-type",
                name |-> recordType.Name,
                label |-> recordType.Name \o " (" \o recordType.SobjectType \o ")",
                fileName |-> recordType.SobjectType \o "." \o recordType.Name
                               \o ".recordType"]),
             term, Tail(records))

(***************************************************************************)
(* Branch 9 ("10" in the source): SOSL fallback.  A record is added only   *)
(* if no entry with its id is in results at that moment.                   *)
(***************************************************************************)
SoslMatch(term) ==
  [line    |-> 1,
   content |-> "Found via SOSL search - contains \"" \o term \o "\"",
   snippet |-> "Contains \"" \o term \o "\"",
   context |-> "SOSL Search Result"]

RECURSIVE SoslLoop(_, _, _)
SoslLoop(results, term, searchRecords) ==
  IF searchRecords = <<>> THEN results
  ELSE LET record     == Head(searchRecords)
           type       == record.type
           existingId == IF type = "ApexClass" THEN "apex-class-" \o record.Id
                         ELSE "apex-trigger-" \o record.Id
           found      == \E k \in 1..Len(results) : results[k].id = existingId
       IN  SoslLoop(
             IF found THEN results
             ELSE IF type = "ApexClass"
             THEN Append(results,
                    [id |-> existingId, type |-> "apex-class",
                     name |-> record.Name, label |-> record.Name,
                     fileName |-> record.Name \o ".cls",
                     matches |-> <<SoslMatch(term)>>, totalMatches |-> 1])
             ELSE IF type = "ApexTrigger"
             THEN Append(results,
                    [id |-> existingId, type |-> "apex-trigger",
                     name |-> record.Name, label |-> record.Name,
                     fileName |-> record.Name \o ".trigger",
                     matches |-> <<SoslMatch(term)>>, totalMatches |-> 1])
             ELSE results,
             term, Tail(searchRecords))

(***************************************************************************)
(* Branch 3: flows.  The flow query is followed, in batches of batchSize,  *)
(* by one XML fetch per flow; the name test runs before the fetch is       *)
(* issued and the XML scan when its response arrives.                      *)
(***************************************************************************)
IsWordChar(c) == c \in LetterSet \cup CapitalSet \cup Digits \cup {"_"}

\* The length of the run of word characters of s that starts at offset i
RECURSIVE WordRun(_, _)
WordRun(s, i) ==
  IF i < Len(s) /\ IsWordChar(CharAt(s, i)) THEN 1 + WordRun(s, i + 1) ELSE 0

\* line.match(/<(\w+)[^>]*>/): the captured tag name, "" when no match
TagName(line) ==
  LET starts == {i \in 0..(Len(line) - 1) :
                   /\ CharAt(line, i) = "<"
                   /\ WordRun(line, i + 1) > 0
                   /\ indexOf(line, ">", i + 1 + WordRun(line, i + 1)) # -1}
  IN  IF starts = {} THEN ""
      ELSE LET i == CHOOSE a \in starts : \A b \in starts : a <= b
           IN  Substring(line, i + 1, i + 1 + WordRun(line, i + 1))

flowElementTypes ==
  [tagName \in {"label", "name", "description", "helpText",
      "value", "stringValue", "formula", "elementReference",
      "choiceText", "defaultValue", "errorMessage", "validationRule",
      "screenField", "inputParameter", "outputParameter", "variable",
      "textTemplate", "recordLookup", "recordCreate", "recordUpdate",
      "assignment", "decision", "screen", "subflow",
      "loop", "wait", "actionCall", "collectionProcessor"} |->
     CASE tagName = "label" -> "Element Label"
       [] tagName = "name" -> "Element Name"
       [] tagName = "description" -> "Element Description"
       [] tagName = "helpText" -> "Help Text"
       [] tagName = "value" -> "Value"
       [] tagName = "stringValue" -> "String Value"
       [] tagName = "formula" -> "Formula"
       [] tagName = "elementReference" -> "Element Reference"
       [] tagName = "choiceText" -> "Choice Text"
       [] tagName = "defaultValue" -> "Default Value"
       [] tagName = "errorMessage" -> "Error Message"
       [] tagName = "validationRule" -> "Validation Rule"
       [] tagName = "screenField" -> "Screen Field"
       [] tagName = "inputParameter" -> "Input Parameter"
       [] tagName = "outputParameter" -> "Output Parameter"
       [] tagName = "variable" -> "Variable"
       [] tagName = "textTemplate" -> "Text Template"
       [] tagName = "recordLookup" -> "Record Lookup"
       [] tagName = "recordCreate" -> "Record Create"
       [] tagName = "recordUpdate" -> "Record Update"
       [] tagName = "assignment" -> "Assignment"
       [] tagName = "decision" -> "Decision"
       [] tagName = "screen" -> "Screen"
       [] tagName = "subflow" -> "Subflow"
       [] tagName = "loop" -> "Loop"
       [] tagName = "wait" -> "Wait"
       [] tagName = "actionCall" -> "Action Call"
       [] tagName = "collectionProcessor" -> "Collection Processor"]

\* The context label of a matching XML line (without the line number)
XmlContext(line) ==
  LET tagName == TagName(line)
  IN  IF tagName = "" THEN "Flow XML"
      ELSE IF tagName \in DOMAIN flowElementTypes THEN flowElementTypes[tagName]
      ELSE "Flow XML (" \o tagName \o ")"

\* The synchronous start of one flow of a batch: the name test.
\* Returns the flow's partial result and the new lastIndex.
FlowStart(flow, term, li) ==
  IF flow.MasterLabel = ""
  THEN [flow |-> flow, flowMatches |-> <<>>, totalMatches |-> 0, lastIndex |-> li]
  ELSE LET t == RegexTest(flow.MasterLabel, term, li)
       IN  [flow |-> flow,
            flowMatches |->
              IF t.matched
              THEN << [line |-> 1,
                       content |-> "Flow Name: " \o flow.MasterLabel,
                       snippet |-> flow.MasterLabel,
                       context |-> "Flow Name"] >>
              ELSE <<>>,
            totalMatches |-> IF t.matched THEN 1 ELSE 0,
            lastIndex |-> t.lastIndex]

\* batch.map(async ...) up to the first await of each flow, in order; the
\* XML request of every started flow is in flight
RECURSIVE StartBatch(_, _, _, _)
StartBatch(batch, term, li, started) ==
  IF batch = <<>> THEN [inFlight |-> started, lastIndex |-> li]
  ELSE LET f == FlowStart(Head(batch), term, li)
       IN  StartBatch(Tail(batch), term, f.lastIndex,
             Append(started, [flow |-> f.flow, flowMatches |-> f.flowMatches,
                              totalMatches |-> f.totalMatches]))

\* The scan of the XML lines of one flow
RECURSIVE ScanXml(_, _, _, _, _, _, _)
ScanXml(xmlLines, lineIndex, flowMatches, totalMatches, xmlMatchCount, li, term) ==
  IF ~(lineIndex < Len(xmlLines) /\ xmlMatchCount < maxXmlMatches)
  THEN [flowMatches |-> flowMatches, totalMatches |-> totalMatches,
        lastIndex |-> li]
  ELSE LET line == xmlLines[lineIndex + 1]
           t    == RegexTest(line, term, li)
       IN  IF t.matched
           THEN ScanXml(xmlLines, lineIndex + 1,
                  Append(flowMatches,
                    [line    |-> lineIndex + 1,
                     content |-> ContextBlock(xmlLines, lineIndex),
                     snippet |-> Snippet(line, term, XmlSnippetWindow),
                     context |-> XmlContext(line) \o " Line "
                                   \o Num(lineIndex + 1)]),
                  totalMatches + 1, xmlMatchCount + 1, t.lastIndex, term)
           ELSE ScanXml(xmlLines, lineIndex + 1, flowMatches, totalMatches,
                  xmlMatchCount, t.lastIndex, term)

\* The rest of one flow once its XML request has settled: ok is
\* xmlResponse.ok (FALSE also for a rejected fetch), xmlContent the body.
FlowFinish(st, term, f, ok, xmlContent) ==
  LET scanned ==
        IF ok /\ xmlContent # "" /\ Len(trim(xmlContent)) > 0
        THEN LET t == RegexTest(xmlContent, term, st.lastIndex)
             IN  IF t.matched
                 THEN ScanXml(split(xmlContent), 0, f.flowMatches,
                        f.totalMatches, 0, t.lastIndex, term)
                 ELSE [flowMatches |-> f.flowMatches,
                       totalMatches |-> f.totalMatches,
                       lastIndex |-> t.lastIndex]
        ELSE [flowMatches |-> f.flowMatches, totalMatches |-> f.totalMatches,
              lastIndex |-> st.lastIndex]
      flowName == IF f.flow.MasterLabel # "" THEN f.flow.MasterLabel ELSE "Flow"
  IN  [results   |->
         IF Len(scanned.flowMatches) > 0
         THEN Append(st.results,
                [id |-> "flow-" \o f.flow.Id, type |-> "flow",
                 name |-> flowName, label |-> flowName,
                 fileName |-> flowName \o ".flow",
                 matches |-> scanned.flowMatches,
                 totalMatches |-> scanned.totalMatches])
         ELSE st.results,
       lastIndex |-> scanned.lastIndex]

(***************************************************************************)
(* De-duplication, ranking and truncation of the shared results list.      *)
(***************************************************************************)
\* Variant of matchKey: the snippet alone
matchKeySnippet(m) == m.snippet

\* `${match.line}-${match.snippet}`
matchKey(m) == Num(m.line) \o "-" \o m.snippet

\* combinedMatches.reduce(...): the first match of every key, in order
RECURSIVE uniqueMatches(_, _)
uniqueMatches(combinedMatches, matchAcc) ==
  IF combinedMatches = <<>> THEN matchAcc
  ELSE LET match == Head(combinedMatches)
       IN  uniqueMatches(Tail(combinedMatches),
             IF \E k \in 1..Len(matchAcc) : matchKey(matchAcc[k]) = matchKey(match)
             THEN matchAcc ELSE Append(matchAcc, match))

\* Variant of the key: entries are told apart by their id
resultKeyById(r) == r.id

\* `${current.type}-${current.name}`
resultKey(r) == r.type \o "-" \o r.name

\* Variant of uniqueResults: of the entries of one type and name the first is
\* kept as it is and the others are dropped
uniqueResultsFirst(rs, acc) ==
  LET First(r) ==
        rs[CHOOSE k \in 1..Len(rs) :
             /\ resultKey(rs[k]) = resultKey(r)
             /\ \A j \in 1..(k - 1) : resultKey(rs[j]) # resultKey(r)]
      IsFirst(r) == r = First(r)
  IN  acc \o SelectSeq(rs, IsFirst)

\* results.reduce(...): entries of one type and name are merged into the
\* first of them.  The reduction over rs is that over its first half followed
\* by that over its second half, which keeps the evaluation shallow.
RECURSIVE uniqueResults(_, _)
uniqueResults(rs, acc) ==
  IF rs = <<>> THEN acc
  ELSE IF Len(rs) > 1
  THEN LET half == Len(rs) \div 2
           left == uniqueResults(SubSeq(rs, 1, half), acc)
       IN  IF Len(left) >= 0   \* the first half is reduced first
           THEN uniqueResults(SubSeq(rs, half + 1, Len(rs)), left)
           ELSE left
  ELSE LET current == Head(rs)
           hits    == {k \in 1..Len(acc) : resultKey(acc[k]) = resultKey(current)}
       IN  IF hits = {} THEN Append(acc, current)
           ELSE LET existingIndex == CHOOSE k \in hits : \A j \in hits : k <= j
                    existing      == acc[existingIndex]
                    merged        == uniqueMatches(existing.matches \o current.matches, <<>>)
                IN  [acc EXCEPT ![existingIndex] =
                       [existing EXCEPT !.matches = merged,
                                        !.totalMatches = Len(merged)]]

\* Variant of the comparator: fewer matches first
compareResultsAscending(a, b) ==
  LET matchDiff == a.totalMatches - b.totalMatches
  IN  IF matchDiff # 0 THEN matchDiff ELSE localeCompare(a.name, b.name)

\* The comparator of uniqueResults.sort: negative when a sorts before b
compareResults(a, b) ==
  LET matchDiff == b.totalMatches - a.totalMatches
  IN  IF matchDiff # 0 THEN matchDiff ELSE localeCompare(a.name, b.name)

\* Array.prototype.sort is stable: x goes before the first element that
\* sorts after it, behind every element ahead of that one
insertSorted(sorted, x) ==
  LET after == {k \in 1..Len(sorted) : compareResults(sorted[k], x) > 0}
      p     == IF after = {} THEN Len(sorted) + 1
               ELSE CHOOSE k \in after : \A j \in after : k <= j
  IN  SubSeq(sorted, 1, p - 1) \o <<x>> \o SubSeq(sorted, p, Len(sorted))

\* the elements of rs inserted one by one, those of its first half before
\* those of its second half
RECURSIVE sortResults(_, _)
sortResults(rs, sorted) ==
  IF rs = <<>> THEN sorted
  ELSE IF Len(rs) > 1
  THEN LET half == Len(rs) \div 2
           left == sortResults(SubSeq(rs, 1, half), sorted)
       IN  IF Len(left) >= 0   \* the first half is sorted first
           THEN sortResults(SubSeq(rs, half + 1, Len(rs)), left)
           ELSE left
  ELSE insertSorted(sorted, Head(rs))

\* Variant of slice: the last n elements
sliceLast(rs, n) == SubSeq(rs, Len(rs) - Min(Len(rs), n) + 1, Len(rs))

\* uniqueResults.slice(0, 50)
slice(rs, n) == SubSeq(rs, 1, Min(Len(rs), n))

\* Variant of Finalize: the results are ranked and truncated as they are
FinalizeUnmerged(rs) == slice(sortResults(rs, <<>>), ResultLimit)

\* What searchCodeContent returns for a results list once all branches have
\* settled without a token error
Finalize(rs) == slice(sortResults(uniqueResults(rs, <<>>), <<>>), ResultLimit)

(***************************************************************************)
(* Remote responses.  An error body is [json, errorCode, message]: json    *)
(* says whether the text parses as JSON, errorCode and message are those   *)
(* of its first element ("" when absent).                                  *)
(***************************************************************************)
\* Variant of handleApiError without its last statement: control leaves the
\* function when the try/catch block throws nothing
handleApiErrorReturning(status, body) ==
  IF body.json
  THEN IF \/ body.errorCode = "INVALID_SESSION_ID"
          \/ indexOf(body.message, "Session expired", 0) # -1
       THEN "TokenExpiredError"
       ELSE IF body.message # "" /\ status = 401 THEN "TokenExpiredError"
       ELSE "returned"
  ELSE IF status = 401 THEN "TokenExpiredError" ELSE "returned"

\* handleApiError(response, errorText): the error it throws, "returned" if
\* control left it normally.  The try block throws for a session marker or a
\* message; the catch block rethrows a TokenExpiredError and throws one for
\* a 401; every other path reaches the last statement, a throw.
handleApiError(status, body) ==
  IF body.json
  THEN IF \/ body.errorCode = "INVALID_SESSION_ID"
          \/ indexOf(body.message, "Session expired", 0) # -1
       THEN "TokenExpiredError"
       ELSE IF body.message # "" /\ status = 401 THEN "TokenExpiredError"
       ELSE "Error"
  ELSE IF status = 401 THEN "TokenExpiredError" ELSE "Error"

\* Variant of toolingQuery: a request that fails in any way makes the
\* helper throw into its branch, which rejects
toolingQueryThrowing(response) ==
  IF response.kind = "ok"
  THEN [t |-> "records", records |-> response.records]
  ELSE [t |-> "TokenExpiredError", records |-> <<>>]

\* toolingQuery: what the helper gives its branch for a settled request.
\* "records" with the record list, "undefined" when the JSON has no records
\* array, "TokenExpiredError" when it throws.
toolingQuery(response) ==
  CASE response.kind = "ok"        -> [t |-> "records", records |-> response.records]
    [] response.kind = "norecords" -> [t |-> "undefined", records |-> <<>>]
    [] response.kind = "http" ->
         IF response.status = 401
            /\ handleApiError(response.status, response.body) = "TokenExpiredError"
         THEN [t |-> "TokenExpiredError", records |-> <<>>]
         ELSE [t |-> "records", records |-> <<>>]
    [] OTHER -> [t |-> "records", records |-> <<>>]

(***************************************************************************)
(* The remote org the search runs against, and the bounds of the model.    *)
(***************************************************************************)
MaxLoaded == 2   \* branches whose query finds records in the org
MaxFail   == 1   \* requests that fail, time out or never respond

Terms == {"on", "o", ""}

RECURSIVE Repeat(_, _)
Repeat(s, n) == IF n = 0 THEN "" ELSE s \o Repeat(s, n - 1)

ApexClassAlpha == [Id |-> "c1", Name |-> "alpha",
                   Body |-> "Contains \"on\"\nx\non\non"]
ApexClassBeta  == [Id |-> "c2", Name |-> "beta", Body |-> "on\nON\n  on"]
ApexClassGamma == [Id |-> "c3", Name |-> "gamma",
                   Body |-> "on on" \o Repeat("\nx\nOn", 15)]
ApexTriggerDelta == [Id |-> "t1", Name |-> "delta", TableEnumOrId |-> "Account",
                     Body |-> "x on\non on"]
FlowOne   == [Id |-> "f1", MasterLabel |-> "onflow"]
FlowTwo   == [Id |-> "f2", MasterLabel |-> "onflow"]
FlowThree == [Id |-> "f3", MasterLabel |-> "zeta"]
FlowFour  == [Id |-> "f4", MasterLabel |-> "eta"]
FlowXml ==
  [id \in {"f1", "f2", "f3", "f4"} |->
     CASE id = "f1" -> "<label>on</label>\n<x>\n<formula>a on</formula>"
       [] id = "f2" -> "<label>on</label>\n<zz>Contact</zz>"
       [] id = "f3" -> "<label>zeta</label>"
       [] id = "f4" -> ""]
LwcOne  == [Id |-> "l1", DeveloperName |-> "onon", MasterLabel |-> "On Label",
            Description |-> ""]
LwcTwo  == [Id |-> "l2", DeveloperName |-> "conf", MasterLabel |-> "",
            Description |-> ""]
AuraOne == [Id |-> "a1", DeveloperName |-> "mono", MasterLabel |-> "Mono",
            Description |-> "on on"]
RuleOne == [Id |-> "v1", ValidationName |-> "rule",
            ErrorMessage |-> "Phone required", ErrorDisplayField |-> "Phone"]
RuleTwo == [Id |-> "v2", ValidationName |-> "chk", ErrorMessage |-> "bad",
            ErrorDisplayField |-> "Phone"]
LayoutOne == [Id |-> "p1", Name |-> "contact", TableEnumOrId |-> "Contact"]
RecordTypeOne == [Id |-> "r1", Name |-> "person", SobjectType |-> "Account",
                  Description |-> "one"]
SoslRecord(type, rec) == [type |-> type, Id |-> rec.Id, Name |-> rec.Name]

Branches == {"apexClass", "apexTrigger", "flow", "lwc", "aura",
             "validationRule", "pageLayout", "recordType", "sosl"}
\* the branches whose request goes through toolingQuery (abort on timeout)
ToolingBranches == Branches \ {"recordType", "sosl"}
\* source order of the branches
BranchOrder == <<"apexClass", "apexTrigger", "flow", "lwc", "aura",
                 "validationRule", "pageLayout", "recordType", "sosl">>

\* Non-empty record lists a request of a branch can return
RecordLists(b) ==
  CASE b = "apexClass"      -> {<<ApexClassAlpha>>,
                                <<ApexClassBeta, ApexClassGamma>>}
    [] b = "apexTrigger"    -> {<<ApexTriggerDelta>>}
    [] b = "flow"           -> {<<FlowThree, FlowOne, FlowFour, FlowTwo>>}
    [] b = "lwc"            -> {<<LwcOne, LwcTwo>>}
    [] b = "aura"           -> {<<AuraOne>>}
    [] b = "validationRule" -> {<<RuleOne, RuleTwo>>}
    [] b = "pageLayout"     -> {<<LayoutOne>>}
    [] b = "recordType"     -> {<<RecordTypeOne>>}
    [] b = "sosl"           -> {<<SoslRecord("ApexTrigger", ApexTriggerDelta),
                                  SoslRecord("ApexClass", ApexClassAlpha),
                                  SoslRecord("ApexClass", ApexClassGamma)>>}

ErrorBodies ==
  {[json |-> TRUE,  errorCode |-> "INVALID_SESSION_ID",
    message |-> "Session expired or invalid"],
   [json |-> TRUE,  errorCode |-> "", message |-> ""],
   [json |-> FALSE, errorCode |-> "", message |-> ""]}

\* Responses that are not a 2xx with a record list
FailureResponses ==
  {[kind |-> "http", status |-> s, body |-> e] : s \in {401, 403, 500}, e \in ErrorBodies}
    \cup {[kind |-> "reject"], [kind |-> "badjson"], [kind |-> "norecords"]}

\* The orgs of the model: per branch, the records its query finds
OrgsOn(loaded) ==
  {[b \in Branches |-> IF b \in loaded THEN f[b] ELSE <<>>] :
     f \in {g \in [loaded -> UNION {RecordLists(b) : b \in loaded}] :
              \A b \in loaded : g[b] \in RecordLists(b)}}

Orgs ==
  UNION {OrgsOn(loaded) :
           loaded \in {l \in SUBSET Branches : Cardinality(l) <= MaxLoaded}}

\* A response that indicates an invalid session: HTTP 401, or the error code
\* INVALID_SESSION_ID in the body
AuthInvalid(response) ==
  /\ response.kind = "http"
  /\ \/ response.status = 401
     \/ response.body.json /\ response.body.errorCode = "INVALID_SESSION_ID"

XmlResponses(flow) ==
  {[kind |-> "ok", text |-> FlowXml[flow.Id]], [kind |-> "reject"]}
    \cup {[kind |-> "http", status |-> st,
           body |-> [json |-> FALSE, errorCode |-> "", message |-> ""]] :
            st \in {401, 500}}

(***************************************************************************)
(* State of one searchCodeContent call.                                    *)
(***************************************************************************)
VARIABLES
  searchTerm,  \* the term searched for
  org,         \* the remote org: per branch, the records its query finds
  pc,          \* "start", "running" (branches in flight), "done"
  branch,      \* per branch: "pending", "stalled" (its request never
               \* responds), "batch" (flow XML fetches), "fulfilled", "rejected"
  results,     \* the results array shared by the branches
  lastIndex,   \* searchRegex.lastIndex, shared by the branches
  flowRest,    \* flows of the batches not started yet
  flowBatch,   \* the flows of the current batch, with their name matches
  flowReq,     \* per flow of the current batch, its XML request: "pending",
               \* "done", "stalled" (never answered)
  settled,     \* how the returned promise settled: "pending", "resolved",
               \* "rejected"
  returned,    \* the list it resolved with
  thrown,      \* what the try block threw into the outer catch
  resp,        \* history: the record list each branch received
  xmlOk,       \* history: per flow id, how its XML fetch settled
  origin,      \* history: the branch that pushed each element of results
  nFail,       \* history: number of requests that failed or never responded
  authSeen,    \* history: some response indicated an invalid session
  issued,      \* history: number of network requests issued so far
  status,      \* response.status of the response given to handleApiError
  errorText,   \* its body, as an error body
  apiError,    \* what handleApiError threw: "none" before the call
  payload,     \* the array property of the JSON body of an ok response
  fetched,     \* what a call of fetchSalesforceObjects or fetchObjectFields did
  stored,      \* SecureStore, the value under TOKENS_KEY
  authState,   \* the auth state of the provider
  now,         \* Date.now()
  nextToken,   \* number of the next access token the server issues
  lastOp,      \* history: the operation of the provider that completed last
  loadedAt,    \* history: Date.now() when loadStoredAuth ran
  loaded,      \* history: what getStoredTokens gave loadStoredAuth
  refreshed,   \* history: the tokens refreshSalesforceToken returned in the
               \* last operation
  attempts,    \* history: the outcomes of the wrapped call in the last
               \* withTokenHandling, in order
  recovered,   \* history: what handleTokenExpiredError returned in it:
               \* "none" when not called, "true", "false"
  apiResult,   \* history: how that withTokenHandling settled
  revoked,     \* history: how the revoke request of the last logout ended,
               \* "none" without a request
  searchQuery, \* the search screen: the text of the input
  mutations,   \* the mutations searchMutation.mutate started, in order, each
               \* with its query and status "pending", "success", "error"
  searchResults, \* the results the screen displays
  hasSearched, \* whether a search has settled
  selectedFilters, \* the filter keys selected on the search screen
  input,       \* the argument of escapeSOSL
  escaped,     \* <<>> before the call, then the string it returned
  collected,   \* a results array as the branches left it
  finalList,   \* <<>>, then the list returned for it
  fieldPc,     \* fetchFieldMetadata: 0 without a call, k during its k-th
               \* lookup, 10 before the reduction, 11 once it has returned,
               \* 12 once it has rejected
  refs,        \* its refs array
  failures,    \* history: the ways its lookups have failed so far
  metadata,    \* <<>>, then the list it returned
  handling,    \* a call of handleTokenExpiredError: its error, what it did
               \* in order and what it returned
  calls        \* the calls of provider functions that run concurrently, in
               \* the order they were made: op, pc (the request awaited, or
               \* "done"), failed, closure (the authState the function
               \* closed over), existing (tokens read), tokens (refreshed)

vars == <<searchTerm, org, pc, branch, results, lastIndex, flowRest, flowBatch,
          flowReq,
          settled, returned, thrown, resp, xmlOk, origin, nFail, authSeen,
          issued>>

flowVars  == <<flowRest, flowBatch, flowReq, xmlOk>>
finalVars == <<settled, returned, thrown>>
apiVars   == <<status, errorText, apiError, payload, fetched>>
authVars  == <<stored, authState, now, nextToken, lastOp, loadedAt, loaded, refreshed,
               attempts, recovered, apiResult, revoked>>
screenVars == <<searchQuery, mutations, searchResults, hasSearched, selectedFilters>>
soslVars == <<input, escaped>>
rankVars == <<collected, finalList>>
fieldVars == <<fieldPc, refs, failures, metadata>>
extraVars == <<fieldVars, handling, calls>>

allVars == <<vars, apiVars, authVars, screenVars, soslVars, rankVars, extraVars>>

\* the variables that are no part of a call of searchCodeContent
notSearch == <<apiVars, authVars, screenVars, soslVars, rankVars, extraVars>>

\* SecureStore holds nothing under TOKENS_KEY; also "no tokens" as a value
NoTokens == [raw |-> "none"]

\* useState<AuthState>({...}): the auth state before loadStoredAuth
InitialAuthState ==
  [accessToken |-> "null", refreshToken |-> "null", instanceUrl |-> "null",
   userInfo |-> "null", isAuthenticated |-> FALSE, isLoading |-> TRUE]

\* no call of escapeSOSL by itself
SoslIdle == input = "" /\ escaped = <<>>

\* no ranking by itself
RankIdle == collected = <<>> /\ finalList = <<>>

\* no call of fetchFieldMetadata
FieldIdle == fieldPc = 0 /\ refs = <<>> /\ failures = {} /\ metadata = <<>>

\* no call of handleTokenExpiredError by itself
NotHandled == [error |-> "none", events |-> <<>>, success |-> FALSE]

ExtraIdle == FieldIdle /\ handling = NotHandled /\ calls = <<>>

\* no search screen
ScreenIdle ==
  /\ searchQuery = ""
  /\ mutations = <<>>
  /\ searchResults = <<>>
  /\ hasSearched = FALSE
  /\ selectedFilters = <<"all">>

\* no auth provider
AuthIdle ==
  /\ stored = NoTokens
  /\ authState = InitialAuthState
  /\ now = 0
  /\ nextToken = 1
  /\ lastOp = "none"
  /\ loadedAt = 0
  /\ loaded = NoTokens
  /\ refreshed = NoTokens
  /\ attempts = <<>>
  /\ recovered = "none"
  /\ apiResult = [attempt |-> 0, outcome |-> "none"]
  /\ revoked = "none"

\* no call of handleApiError by itself
NotFetched == [fn |-> "none", parsed |-> FALSE, outcome |-> "none"]

ApiIdle ==
  /\ status = 200
  /\ errorText = [json |-> FALSE, errorCode |-> "", message |-> ""]
  /\ apiError = "none"
  /\ payload = "neither"
  /\ fetched = NotFetched

\* no call of searchCodeContent
SearchIdle ==
  /\ searchTerm = ""
  /\ org = [b \in Branches |-> <<>>]
  /\ pc = "idle"
  /\ branch = [b \in Branches |-> "pending"]
  /\ results = <<>>
  /\ lastIndex = 0
  /\ flowRest = <<>>
  /\ flowBatch = <<>>
  /\ flowReq = <<>>
  /\ settled = "pending"
  /\ returned = <<>>
  /\ thrown = "none"
  /\ resp = [b \in Branches |-> <<>>]
  /\ xmlOk = [id \in DOMAIN FlowXml |-> "none"]
  /\ origin = <<>>
  /\ nFail = 0
  /\ authSeen = FALSE
  /\ issued = 0

Init ==
  /\ searchTerm \in Terms
  /\ org \in Orgs
  /\ pc = "start"
  /\ branch = [b \in Branches |-> "pending"]
  /\ results = <<>>
  /\ lastIndex = 0
  /\ flowRest = <<>>
  /\ flowBatch = <<>>
  /\ flowReq = <<>>
  /\ settled = "pending"
  /\ returned = <<>>
  /\ thrown = "none"
  /\ resp = [b \in Branches |-> <<>>]
  /\ xmlOk = [id \in DOMAIN FlowXml |-> "none"]
  /\ origin = <<>>
  /\ nFail = 0
  /\ authSeen = FALSE
  /\ issued = 0
  /\ ApiIdle
  /\ AuthIdle
  /\ ScreenIdle
  /\ SoslIdle
  /\ RankIdle
  /\ ExtraIdle

\* The response of the org to the request of branch b
OkResponses(b) == {[kind |-> "ok", records |-> org[b]]}

\* Position of a branch in source order
Rank(b) == CHOOSE k \in 1..Len(BranchOrder) : BranchOrder[k] = b

\* Scheduling bound.  The request of a branch for which the org holds no
\* record can only end its branch without a result: the step changes nothing
\* but the status of that branch and commutes with every other step.  Such
\* requests settle first and in source order; the requests of the branches
\* that have records settle afterwards, at any time and in any order.
Turn(b) ==
  IF org[b] = <<>>
  THEN \A c \in Branches :
         org[c] = <<>> /\ Rank(c) < Rank(b) => branch[c] # "pending"
  ELSE \A c \in Branches : org[c] = <<>> => branch[c] # "pending"

\* Failure bound: at most MaxFail requests fail, time out or never respond,
\* and they are requests of branches that have records (a failure costs such
\* a branch its results; every branch has records in some org).
MayFail(b) == org[b] # <<>> /\ nFail < MaxFail

\* The XML requests of a batch of n flows, all in flight
Requests(n) == [k \in 1..n |-> "pending"]

\* The environment stays within the bounds
Allowed(b, response) ==
  /\ Turn(b)
  /\ response.kind # "ok" => MayFail(b)

Pushed(b, newResults) ==
  origin \o [k \in 1..(Len(newResults) - Len(results)) |-> b]

Note(b, response) ==
  /\ resp' = [resp EXCEPT ![b] = IF response.kind = "ok" THEN response.records
                                 ELSE <<>>]
  /\ nFail' = IF response.kind = "ok" THEN nFail ELSE nFail + 1
  /\ authSeen' = (authSeen \/ AuthInvalid(response))

\* Variant of Start: the branches are started whatever the term is
StartUnvalidated ==
  /\ pc = "start"
  /\ UNCHANGED notSearch
  /\ pc' = "running"
  /\ issued' = issued + Cardinality(Branches)
  /\ UNCHANGED <<searchTerm, org, branch, results, lastIndex, flowVars,
                 finalVars, resp, origin, nFail, authSeen>>

\* Input validation: a term shorter than two characters returns [] at once;
\* otherwise the nine branches are started (instanceUrl and accessToken are
\* taken to be present).
Start ==
  /\ pc = "start"
  /\ UNCHANGED notSearch
  /\ IF Len(searchTerm) < 2
     THEN /\ pc' = "done"
          /\ settled' = "resolved"
          /\ returned' = <<>>
          /\ UNCHANGED issued
     ELSE /\ pc' = "running"
          /\ issued' = issued + Cardinality(Branches)
          /\ UNCHANGED <<settled, returned>>
  /\ UNCHANGED <<searchTerm, org, branch, results, lastIndex, flowVars,
                 thrown, resp, origin, nFail, authSeen>>

\* The state the branches share
Shared == [results |-> results, lastIndex |-> lastIndex]

\* A branch whose single request goes through toolingQuery: the request of
\* branch b settles with response and the branch runs its loop over the
\* records; looped is the shared state after that loop.
ToolingBranch(b, response, looped) ==
  /\ pc = "running"
  /\ UNCHANGED notSearch
  /\ branch[b] = "pending"
  /\ Allowed(b, response)
  /\ LET q   == toolingQuery(response)
         st2 == IF q.t = "records" THEN looped ELSE Shared
     IN  /\ results' = st2.results
         /\ lastIndex' = st2.lastIndex
         /\ origin' = Pushed(b, st2.results)
         /\ branch' = [branch EXCEPT ![b] =
                         IF q.t = "TokenExpiredError" THEN "rejected"
                         ELSE "fulfilled"]
  /\ Note(b, response)
  /\ UNCHANGED <<searchTerm, org, issued, pc, flowVars, finalVars>>

ApexClassBranch ==
  \E response \in OkResponses("apexClass") \cup FailureResponses :
    ToolingBranch("apexClass", response,
      ApexClassLoop(Shared, searchTerm, toolingQuery(response).records))

ApexTriggerBranch ==
  \E response \in OkResponses("apexTrigger") \cup FailureResponses :
    ToolingBranch("apexTrigger", response,
      ApexTriggerLoop(Shared, searchTerm, toolingQuery(response).records))

LwcBranch ==
  \E response \in OkResponses("lwc") \cup FailureResponses :
    ToolingBranch("lwc", response,
      LwcLoop(Shared, searchTerm, toolingQuery(response).records))

AuraBranch ==
  \E response \in OkResponses("aura") \cup FailureResponses :
    ToolingBranch("aura", response,
      AuraLoop(Shared, searchTerm, toolingQuery(response).records))

ValidationRuleBranch ==
  \E response \in OkResponses("validationRule") \cup FailureResponses :
    ToolingBranch("validationRule", response,
      ValidationLoop(Shared, searchTerm, toolingQuery(response).records))

PageLayoutBranch ==
  \E response \in OkResponses("pageLayout") \cup FailureResponses :
    ToolingBranch("pageLayout", response,
      LayoutLoop(Shared, searchTerm, toolingQuery(response).records))

\* The flow query settles: the first batch is started
FlowBranch ==
  \E response \in OkResponses("flow") \cup FailureResponses :
    /\ pc = "running"
    /\ UNCHANGED notSearch
    /\ branch["flow"] = "pending"
    /\ Allowed("flow", response)
    /\ LET q     == toolingQuery(response)
           flows == q.records
           sb    == StartBatch(SubSeq(flows, 1, Min(batchSize, Len(flows))),
                               searchTerm, lastIndex, <<>>)
       IN  IF q.t = "records" /\ flows # <<>>
           THEN /\ branch' = [branch EXCEPT !["flow"] = "batch"]
                /\ flowBatch' = sb.inFlight
                /\ flowReq' = Requests(Len(sb.inFlight))
                /\ issued' = issued + Len(sb.inFlight)
                /\ flowRest' = SubSeq(flows, batchSize + 1, Len(flows))
                /\ lastIndex' = sb.lastIndex
           ELSE /\ branch' = [branch EXCEPT !["flow"] =
                                IF q.t = "TokenExpiredError" THEN "rejected"
                                ELSE "fulfilled"]
                /\ UNCHANGED <<flowBatch, flowReq, flowRest, lastIndex, issued>>
    /\ Note("flow", response)
    /\ UNCHANGED <<searchTerm, org, pc, results, origin, xmlOk, finalVars>>

\* The XML fetch of the k-th flow of the batch settles; the last one of a
\* batch starts the next batch or ends the branch
FlowXmlSettle ==
  \E k \in 1..Len(flowBatch) : \E response \in XmlResponses(flowBatch[k].flow) :
    /\ pc = "running"
    /\ UNCHANGED notSearch
    /\ branch["flow"] = "batch"
    /\ flowReq[k] = "pending"
    /\ response.kind # "ok" => MayFail("flow")
    /\ LET f     == flowBatch[k]
           ok    == response.kind = "ok"
           st2   == FlowFinish([results |-> results, lastIndex |-> lastIndex],
                               searchTerm, f, ok,
                               IF ok THEN response.text ELSE "")
           reqs  == [flowReq EXCEPT ![k] = "done"]
           sb    == StartBatch(SubSeq(flowRest, 1, Min(batchSize, Len(flowRest))),
                               searchTerm, st2.lastIndex, <<>>)
       IN  /\ results' = st2.results
           /\ origin' = Pushed("flow", st2.results)
           /\ xmlOk' = [xmlOk EXCEPT ![f.flow.Id] = IF ok THEN "ok" ELSE "failed"]
           /\ nFail' = IF ok THEN nFail ELSE nFail + 1
           /\ authSeen' = (authSeen \/ AuthInvalid(response))
           /\ IF \E j \in 1..Len(reqs) : reqs[j] # "done"
              THEN /\ flowReq' = reqs
                   /\ lastIndex' = st2.lastIndex
                   /\ UNCHANGED <<flowBatch, flowRest, branch, issued>>
              ELSE IF flowRest = <<>>
              THEN /\ flowBatch' = <<>>
                   /\ flowReq' = <<>>
                   /\ lastIndex' = st2.lastIndex
                   /\ branch' = [branch EXCEPT !["flow"] = "fulfilled"]
                   /\ UNCHANGED <<flowRest, issued>>
              ELSE /\ flowBatch' = sb.inFlight
                   /\ flowReq' = Requests(Len(sb.inFlight))
                   /\ issued' = issued + Len(sb.inFlight)
                   /\ lastIndex' = sb.lastIndex
                   /\ flowRest' = SubSeq(flowRest, batchSize + 1, Len(flowRest))
                   /\ UNCHANGED branch
    /\ UNCHANGED <<searchTerm, org, pc, resp, finalVars>>

\* Record types: a plain fetch, no timeout, no handling of an invalid session
RecordTypeBranch ==
  \E response \in OkResponses("recordType") \cup FailureResponses :
    /\ pc = "running"
    /\ UNCHANGED notSearch
    /\ branch["recordType"] = "pending"
    /\ Allowed("recordType", response)
    /\ LET st  == [results |-> results, lastIndex |-> lastIndex]
           st2 == IF response.kind = "ok"
                  THEN RecordTypeLoop(st, searchTerm, response.records) ELSE st
       IN  /\ results' = st2.results
           /\ lastIndex' = st2.lastIndex
           /\ origin' = Pushed("recordType", st2.results)
    /\ branch' = [branch EXCEPT !["recordType"] = "fulfilled"]
    /\ Note("recordType", response)
    /\ UNCHANGED <<searchTerm, org, issued, pc, flowVars, finalVars>>

\* SOSL fallback: a plain fetch, no timeout, no handling of an invalid session
SoslBranch ==
  \E response \in OkResponses("sosl") \cup FailureResponses :
    /\ pc = "running"
    /\ UNCHANGED notSearch
    /\ branch["sosl"] = "pending"
    /\ Allowed("sosl", response)
    /\ LET rs == IF response.kind = "ok"
                 THEN SoslLoop(results, searchTerm, response.records)
                 ELSE results
       IN  /\ results' = rs
           /\ origin' = Pushed("sosl", rs)
    /\ branch' = [branch EXCEPT !["sosl"] = "fulfilled"]
    /\ Note("sosl", response)
    /\ UNCHANGED <<searchTerm, org, issued, pc, lastIndex, flowVars, finalVars>>

\* The remote side never answers a request that has no timeout: the record
\* type query or the SOSL search ...
Stall(b) ==
  /\ pc = "running"
  /\ UNCHANGED notSearch
  /\ b \in Branches \ ToolingBranches
  /\ branch[b] = "pending"
  /\ Turn(b)
  /\ MayFail(b)
  /\ branch' = [branch EXCEPT ![b] = "stalled"]
  /\ nFail' = nFail + 1
  /\ UNCHANGED <<searchTerm, org, issued, pc, results, lastIndex, flowVars, finalVars,
                 resp, origin, authSeen>>

\* ... or the XML fetch of the k-th flow of the batch
StallXml(k) ==
  /\ pc = "running"
  /\ UNCHANGED notSearch
  /\ branch["flow"] = "batch"
  /\ k \in 1..Len(flowReq)
  /\ flowReq[k] = "pending"
  /\ MayFail("flow")
  /\ flowReq' = [flowReq EXCEPT ![k] = "stalled"]
  /\ nFail' = nFail + 1
  /\ UNCHANGED <<searchTerm, org, issued, pc, branch, results, lastIndex, flowRest,
                 flowBatch, xmlOk, finalVars, resp, origin, authSeen>>

\* The timer of toolingQuery fires before the request of branch b has
\* responded: the request is aborted, the helper returns no records and the
\* branch ends without a result
ToolingTimeout(b) ==
  /\ pc = "running"
  /\ UNCHANGED notSearch
  /\ b \in ToolingBranches
  /\ branch[b] = "pending"
  /\ Turn(b)
  /\ MayFail(b)
  /\ branch' = [branch EXCEPT ![b] = "fulfilled"]
  /\ nFail' = nFail + 1
  /\ UNCHANGED <<searchTerm, org, issued, pc, results, lastIndex, flowVars, finalVars,
                 resp, origin, authSeen>>

\* Variant of Finish: the call goes on as soon as one branch has settled
FinishEarly ==
  /\ pc = "running"
  /\ UNCHANGED notSearch
  /\ \E b \in Branches : branch[b] \in {"fulfilled", "rejected"}
  /\ pc' = "done"
  /\ settled' = "resolved"
  /\ thrown' = "none"
  /\ returned' = Finalize(results)
  /\ UNCHANGED <<searchTerm, org, issued, branch, results, lastIndex, flowVars,
                 resp, origin, nFail, authSeen>>

\* Promise.allSettled resolves: a rejected branch (always a TokenExpiredError)
\* is thrown, and caught by the outer catch, which returns []; otherwise the
\* results are de-duplicated, ranked and truncated
Finish ==
  /\ pc = "running"
  /\ UNCHANGED notSearch
  /\ \A b \in Branches : branch[b] \in {"fulfilled", "rejected"}
  /\ pc' = "done"
  /\ settled' = "resolved"
  /\ IF \E b \in Branches : branch[b] = "rejected"
     THEN /\ thrown' = "TokenExpiredError"
          /\ returned' = <<>>
     ELSE /\ thrown' = "none"
          /\ returned' = Finalize(results)
  /\ UNCHANGED <<searchTerm, org, issued, branch, results, lastIndex, flowVars, resp,
                 origin, nFail, authSeen>>

Next ==
  \/ Start
  \/ ApexClassBranch
  \/ ApexTriggerBranch
  \/ FlowBranch
  \/ FlowXmlSettle
  \/ LwcBranch
  \/ AuraBranch
  \/ ValidationRuleBranch
  \/ PageLayoutBranch
  \/ RecordTypeBranch
  \/ SoslBranch
  \/ \E b \in Branches \ ToolingBranches : Stall(b)
  \/ \E k \in 1..batchSize : StallXml(k)
  \/ \E b \in ToolingBranches : ToolingTimeout(b)
  \/ Finish

Spec == Init /\ [][Next]_allVars

\* The control state of the call: where it stands and which requests are
\* in flight
control == <<pc, branch, flowReq, flowRest>>

\* The steps the event loop takes by itself (Start, the handling of a settled
\* request, the timer of toolingQuery, Finish), as steps of the control
\* state: Handled is enabled exactly when one of those actions is, and a
\* step of Next changes the control state as Handled says exactly when it is
\* a step of one of them.  Stall and StallXml are no steps of Handled.
Handled ==
  \/ /\ pc = "start"
     /\ pc' = IF Len(searchTerm) < 2 THEN "done" ELSE "running"
     /\ UNCHANGED <<branch, flowReq, flowRest>>
  \/ \E b \in Branches \ {"flow"} :
       /\ pc = "running" /\ branch[b] = "pending" /\ Turn(b)
       /\ branch' \in {[branch EXCEPT ![b] = v] : v \in {"fulfilled", "rejected"}}
       /\ UNCHANGED <<pc, flowReq, flowRest>>
  \/ /\ pc = "running" /\ branch["flow"] = "pending" /\ Turn("flow")
     /\ \/ /\ org["flow"] # <<>>
           /\ branch' = [branch EXCEPT !["flow"] = "batch"]
           /\ flowReq' = Requests(Min(batchSize, Len(org["flow"])))
           /\ flowRest' = SubSeq(org["flow"], batchSize + 1, Len(org["flow"]))
        \/ /\ branch' \in {[branch EXCEPT !["flow"] = v] :
                             v \in {"fulfilled", "rejected"}}
           /\ UNCHANGED <<flowReq, flowRest>>
     /\ UNCHANGED pc
  \/ \E k \in 1..Len(flowReq) :
       /\ pc = "running" /\ branch["flow"] = "batch" /\ flowReq[k] = "pending"
       /\ LET reqs == [flowReq EXCEPT ![k] = "done"]
          IN  IF \E j \in 1..Len(reqs) : reqs[j] # "done"
              THEN /\ flowReq' = reqs
                   /\ UNCHANGED <<branch, flowRest>>
              ELSE IF flowRest = <<>>
              THEN /\ flowReq' = <<>>
                   /\ branch' = [branch EXCEPT !["flow"] = "fulfilled"]
                   /\ UNCHANGED flowRest
              ELSE /\ flowReq' = Requests(Min(batchSize, Len(flowRest)))
                   /\ flowRest' = SubSeq(flowRest, batchSize + 1, Len(flowRest))
                   /\ UNCHANGED branch
       /\ UNCHANGED pc
  \/ /\ pc = "running"
     /\ \A b \in Branches : branch[b] \in {"fulfilled", "rejected"}
     /\ pc' = "done"
     /\ UNCHANGED <<branch, flowReq, flowRest>>

\* The scheduling the event loop guarantees: while there is a settled
\* request, an armed timer or a continuation to run, one of them is handled.
\* Nothing obliges the remote side to answer, so the steps in which a
\* request stays unanswered for good (Stall, StallXml) are left to chance.
FairSpec == Init /\ [][Next]_allVars /\ WF_control(Handled)

(***************************************************************************)
(* Properties of searchCodeContent.                                        *)
(***************************************************************************)
\* The call has returned after running its branches
Returned == pc = "done" /\ Len(searchTerm) >= 2

\* The call has returned a list built from the results of its branches
ReturnedList == Returned /\ thrown = "none"

\* The query of branch b was answered with the records of the org
Succeeded(b) == resp[b] = org[b]

\* C1: when a remote call of any branch indicates an invalid session (HTTP
\* 401, or the error code INVALID_SESSION_ID in the body), the call rejects
\* with TokenExpiredError and does not resolve with a list.
C1_InvalidSessionRejects ==
  (Returned /\ authSeen) => settled = "rejected"

\* The flows of one batch finished one after the other, each with the outcome
\* its XML fetch had
RECURSIVE SeqFinish(_, _, _)
SeqFinish(st, term, inFlight) ==
  IF inFlight = <<>> THEN st
  ELSE LET f == Head(inFlight)
       IN  SeqFinish(FlowFinish(st, term, f, xmlOk[f.flow.Id] = "ok",
                                FlowXml[f.flow.Id]),
                     term, Tail(inFlight))

RECURSIVE SeqBatches(_, _, _)
SeqBatches(st, term, flows) ==
  IF flows = <<>> THEN st
  ELSE LET sb == StartBatch(SubSeq(flows, 1, Min(batchSize, Len(flows))),
                            term, st.lastIndex, <<>>)
       IN  SeqBatches(SeqFinish([st EXCEPT !.lastIndex = sb.lastIndex], term,
                                sb.inFlight),
                      term, SubSeq(flows, batchSize + 1, Len(flows)))

\* The results array when the requests complete in source order, every
\* request with the answer it had in this run
SourceOrderResults ==
  LET s0 == [results |-> <<>>, lastIndex |-> 0]
      s1 == ApexClassLoop(s0, searchTerm, resp["apexClass"])
      s2 == ApexTriggerLoop(s1, searchTerm, resp["apexTrigger"])
      s3 == SeqBatches(s2, searchTerm, resp["flow"])
      s4 == LwcLoop(s3, searchTerm, resp["lwc"])
      s5 == AuraLoop(s4, searchTerm, resp["aura"])
      s6 == ValidationLoop(s5, searchTerm, resp["validationRule"])
      s7 == LayoutLoop(s6, searchTerm, resp["pageLayout"])
      s8 == RecordTypeLoop(s7, searchTerm, resp["recordType"])
  IN  SoslLoop(s8.results, searchTerm, resp["sosl"])

\* C2: for fixed remote responses the returned list (entries, match lists,
\* totalMatches, order) is the same for every completion order of the
\* requests: it is the list obtained when they complete in source order.
C2_CompletionOrderIrrelevant ==
  (ReturnedList /\ nFail = 0) => returned = Finalize(SourceOrderResults)

\* 1-based numbers of the lines of a body that contain the term,
\* case-insensitively
RECURSIVE MatchingLines(_, _, _)
MatchingLines(lines, term, n) ==
  IF lines = <<>> THEN <<>>
  ELSE (IF indexOf(toLowerCase(Head(lines)), toLowerCase(term), 0) # -1
        THEN <<n>> ELSE <<>>) \o MatchingLines(Tail(lines), term, n + 1)

BodyBranches == {"apexClass", "apexTrigger"}

BodyId(b, rec) ==
  (IF b = "apexClass" THEN "apex-class-" ELSE "apex-trigger-") \o rec.Id

\* The entry the branch b has pushed for the record rec has its matches on
\* exactly the lines wanted
HasLineMatches(b, rec, wanted) ==
  \E k \in 1..Len(results) :
    /\ origin[k] = b
    /\ results[k].id = BodyId(b, rec)
    /\ [i \in 1..Len(results[k].matches) |-> results[k].matches[i].line] = wanted

\* C3: an Apex class or trigger body with N lines that contain the term
\* yields an entry with min(N, 15) matches, one for each of the first
\* min(N, 15) matching lines, with that line's 1-based number.
C3_OneMatchPerMatchingLine ==
  \A b \in BodyBranches :
    (branch[b] = "fulfilled" /\ Succeeded(b)) =>
      \A r \in 1..Len(resp[b]) :
        LET rec == resp[b][r]
            all == MatchingLines(split(rec.Body), searchTerm, 1)
        IN  all # <<>> =>
              HasLineMatches(b, rec, SubSeq(all, 1, Min(Len(all), maxMatches)))

\* C4: when the query of one branch times out or fails without indicating an
\* invalid session while every other request succeeds, the call resolves
\* without throwing, and the list is built from the results of the branches
\* whose query succeeded and from nothing else.
C4_FailedBranchIsolated ==
  (Returned /\ nFail = 1 /\ ~authSeen) =>
    /\ settled = "resolved"
    /\ thrown = "none"
    /\ returned = Finalize(results)
    /\ \A k \in 1..Len(results) : Succeeded(origin[k])
    /\ \A k \in 1..Len(results) :
         \E j \in 1..Len(returned) : resultKey(returned[j]) = resultKey(results[k])

\* a branch with records has lost its query, another one has delivered
C4_Witness ==
  /\ Returned /\ nFail = 1 /\ ~authSeen
  /\ \E b \in Branches : org[b] # <<>> /\ ~Succeeded(b)
  /\ Len(returned) >= 1

\* C5: every returned entry has at least one match (matches is not empty and
\* totalMatches >= 1), whichever branch produced it.
C5_EntriesHaveMatches ==
  Returned =>
    \A j \in 1..Len(returned) :
      Len(returned[j].matches) >= 1 /\ returned[j].totalMatches >= 1

\* The record with this entry id was surfaced both by its structured branch
\* (entry k of results) and by the SOSL fallback
SurfacedTwice(k) ==
  /\ origin[k] \in BodyBranches
  /\ Succeeded("sosl")
  /\ \E r \in 1..Len(resp["sosl"]) :
       LET record == resp["sosl"][r]
       IN  results[k].id =
             (IF record.type = "ApexClass" THEN "apex-class-" ELSE "apex-trigger-")
               \o record.Id

EntriesWithId(id) == {j \in 1..Len(returned) : returned[j].id = id}

\* the match m is in the match list of every returned entry with this id
KeepsMatch(id, m) ==
  \A j \in EntriesWithId(id) :
    \E i \in 1..Len(returned[j].matches) : returned[j].matches[i] = m

C7_IdsUnique ==
  Returned =>
    \A i \in 1..Len(returned) : \A j \in 1..Len(returned) :
      returned[i].id = returned[j].id => i = j

\* two entries with one id were in results and the list has several entries
C7_Witness ==
  /\ ReturnedList
  /\ Len(returned) >= 2
  /\ \E h \in 1..Len(results) : \E k \in 1..Len(results) :
       h # k /\ results[h].id = results[k].id

\* C8: every remote request is cancelled by a timeout of its own, so the call
\* eventually returns even when some request is never answered.
C8_EventuallyReturns == <>(pc = "done")

\* C9: every returned entry has at most 15 matches, merged entries and
\* entries with a flow-name match and flow XML matches included.
C9_MatchesCapped ==
  Returned =>
    \A j \in 1..Len(returned) : Len(returned[j].matches) <= maxMatches

C11_ShortTermNoRequest ==
  Len(searchTerm) < 2 =>
    /\ issued = 0
    /\ pc = "done" => settled = "resolved" /\ returned = <<>>
    /\ pc # "running"

\* the call has returned for a short term in an org whose records contain it
C11_Witness ==
  /\ pc = "done"
  /\ Len(searchTerm) < 2
  /\ \E b \in Branches : org[b] # <<>>

\* C12: de-duplication, ranking and truncation start only when all nine
\* branches have settled, with every flow batch finished; what is merged is
\* the results list as the branches left it, nothing is added afterwards;
\* and a branch that failed without rejecting does not keep the entries of
\* the other branches from being merged.
C12_MergeAfterAllSettled ==
  Returned =>
    /\ \A b \in Branches : branch[b] \in {"fulfilled", "rejected"}
    /\ flowReq = <<>> /\ flowRest = <<>>
    /\ (\A b \in Branches : branch[b] = "fulfilled") =>
         thrown = "none" /\ returned = Finalize(results)

\* the flow branch, the last to settle, has its entry in the list although
\* the query of another branch with records has failed
C12_Witness ==
  /\ ReturnedList
  /\ \E k \in 1..Len(results) : origin[k] = "flow"
  /\ \E j \in 1..Len(returned) : returned[j].type = "flow"
  /\ \E b \in Branches : org[b] # <<>> /\ ~Succeeded(b)


(***************************************************************************)
(* C13                                                                     *)
(***************************************************************************)
\* the entries of the shared list that have the type and name of r
Group(r) == {k \in 1..Len(results) : resultKey(results[k]) = resultKey(r)}

SameMatch(m, n) == m.line = n.line /\ m.snippet = n.snippet

\* C13: every returned entry has totalMatches equal to the length of its
\* matches list; a returned entry merged from several entries of one type
\* and name holds exactly the matches of those entries (each of its matches
\* is one of theirs, each of theirs is in it up to line and snippet) and no
\* two of its matches have the same line and snippet.
C13_TotalMatchesIsLength ==
  ReturnedList =>
    \A j \in 1..Len(returned) :
      LET e == returned[j]
      IN  /\ e.totalMatches = Len(e.matches)
          /\ Cardinality(Group(e)) > 1 =>
               /\ \A a, b \in 1..Len(e.matches) :
                    SameMatch(e.matches[a], e.matches[b]) => a = b
               /\ \A a \in 1..Len(e.matches) :
                    \E k \in Group(e) : \E i \in 1..Len(results[k].matches) :
                      results[k].matches[i] = e.matches[a]
               /\ \A k \in Group(e) : \A i \in 1..Len(results[k].matches) :
                    \E a \in 1..Len(e.matches) :
                      SameMatch(e.matches[a], results[k].matches[i])

\* a returned list with an entry merged from two entries that keeps more
\* than one match
C13_Witness ==
  /\ ReturnedList
  /\ \E j \in 1..Len(returned) :
       /\ Cardinality(Group(returned[j])) > 1
       /\ Len(returned[j].matches) > 1
  /\ \E j \in 1..Len(returned) : returned[j].type = "flow"

\* The first pushed entry of the type and name of r
FirstPushed(r) == results[CHOOSE k \in Group(r) : \A j \in Group(r) : k <= j]

\* C25: in every returned list the (type, name) pairs are unique: the pushed
\* entries of one type and name, whatever their record ids, are one returned
\* entry with the id, label and fileName of the first of them pushed and
\* with each of their matches once (up to line and snippet).
C25_TypeNameUnique ==
  ReturnedList =>
    /\ \A i, j \in 1..Len(returned) :
         (returned[i].type = returned[j].type
            /\ returned[i].name = returned[j].name) => i = j
    /\ \A k \in 1..Len(results) :
         \E j \in 1..Len(returned) :
           LET e == returned[j]
           IN  /\ e.type = results[k].type /\ e.name = results[k].name
               /\ e.id = FirstPushed(e).id
               /\ e.label = FirstPushed(e).label
               /\ e.fileName = FirstPushed(e).fileName
               /\ \A i \in 1..Len(results[k].matches) :
                    Cardinality({a \in 1..Len(e.matches) :
                       SameMatch(e.matches[a], results[k].matches[i])}) = 1

\* two flows with different record ids and one label were pushed, and the
\* returned entry of that label has the id of the first
C25_Witness ==
  /\ ReturnedList
  /\ \E k, m \in 1..Len(results) :
       /\ k < m
       /\ results[k].type = "flow" /\ results[m].type = "flow"
       /\ results[k].name = results[m].name
       /\ results[k].id # results[m].id
       /\ \E j \in 1..Len(returned) : returned[j].id = results[k].id

\* A text contains the term, case-insensitively: what the text and the term
\* alone determine
ContainsTerm(text, term) ==
  indexOf(toLowerCase(text), toLowerCase(term), 0) # -1

\* C21: within one run, whether a text is reported as containing the term
\* depends only on that text and the term, not on the texts tested before it
\* by the same or by another branch; for the page layout branch, whose only
\* test is the one of the layout name: every layout of a successful query
\* whose name contains the term has its entry pushed.
C21_TestDependsOnTextOnly ==
  (branch["pageLayout"] = "fulfilled" /\ Succeeded("pageLayout")) =>
    \A r \in 1..Len(resp["pageLayout"]) :
      LET layout == resp["pageLayout"][r]
      IN  ContainsTerm(layout.Name, searchTerm) =>
            \E k \in 1..Len(results) :
              /\ origin[k] = "pageLayout"
              /\ results[k].id = "page-layout-" \o layout.Id


(***************************************************************************)
(* handleApiError by itself: a response that is not ok and its body.       *)
(***************************************************************************)
\* statuses of responses that are not ok
ErrorStatuses == {400, 401, 403, 404, 500}

\* bodies: a JSON array whose first element has, or lacks, an errorCode and
\* a message, and a text that is no JSON
ApiBodies ==
  {[json |-> TRUE, errorCode |-> c, message |-> m] :
     c \in {"", "INVALID_SESSION_ID", "NOT_FOUND"},
     m \in {"", "Session expired or invalid", "Session expired",
            "The requested resource does not exist"}}
    \cup {[json |-> FALSE, errorCode |-> "", message |-> ""]}

ApiInit ==
  /\ SearchIdle
  /\ AuthIdle
  /\ ScreenIdle
  /\ SoslIdle
  /\ RankIdle
  /\ ExtraIdle
  /\ status \in ErrorStatuses
  /\ errorText \in ApiBodies
  /\ apiError = "none"
  /\ payload = "neither"
  /\ fetched = NotFetched

\* handleApiError(response, errorText)
HandleApiError ==
  /\ apiError = "none"
  /\ apiError' = handleApiError(status, errorText)
  /\ UNCHANGED <<vars, authVars, screenVars, soslVars, rankVars, extraVars, status, errorText,
               payload, fetched>>

ApiNext == HandleApiError

ApiSpec == ApiInit /\ [][ApiNext]_allVars

(***************************************************************************)
(* fetchSalesforceObjects and fetchObjectFields: a response to their one   *)
(* request, called with a valid instance URL.                              *)
(***************************************************************************)
OkStatuses == {200}

\* response.ok
responseOk(st) == st >= 200 /\ st <= 299

\* array properties a JSON body of an ok response can have
Payloads == {"sobjects", "fields", "neither"}

\* Both functions after their request has settled; wanted is the array
\* property the function reads.  parsed says whether response.json() was
\* called; outcome is "list" for a returned list, else the error thrown on
\* (the catch block rethrows what it caught).
fetchAfterResponse(wanted, st, body, data) ==
  LET err == IF responseOk(st) THEN "returned" ELSE handleApiError(st, body)
  IN  IF err # "returned"
      THEN [parsed |-> FALSE, outcome |-> err]
      ELSE [parsed |-> TRUE,
            outcome |-> IF responseOk(st) /\ data = wanted THEN "list" ELSE "Error"]

fetchSalesforceObjects(st, body, data) ==
  fetchAfterResponse("sobjects", st, body, data)

fetchObjectFields(st, body, data) ==
  fetchAfterResponse("fields", st, body, data)

FetchInit ==
  /\ SearchIdle
  /\ AuthIdle
  /\ ScreenIdle
  /\ SoslIdle
  /\ RankIdle
  /\ ExtraIdle
  /\ status \in ErrorStatuses \cup OkStatuses
  /\ errorText \in ApiBodies
  /\ payload \in Payloads
  /\ apiError = "none"
  /\ fetched = NotFetched

FetchSalesforceObjects ==
  /\ fetched = NotFetched
  /\ fetched' = [fn |-> "fetchSalesforceObjects"]
                   @@ fetchSalesforceObjects(status, errorText, payload)
  /\ UNCHANGED <<vars, authVars, screenVars, soslVars, rankVars, extraVars, status, errorText,
                 apiError, payload>>

FetchObjectFields ==
  /\ fetched = NotFetched
  /\ fetched' = [fn |-> "fetchObjectFields"]
                   @@ fetchObjectFields(status, errorText, payload)
  /\ UNCHANGED <<vars, authVars, screenVars, soslVars, rankVars, extraVars, status, errorText,
                 apiError, payload>>

\* handleApiError called by itself on the response, when it is not ok
HandleFetchError ==
  /\ ~responseOk(status)
  /\ apiError = "none"
  /\ apiError' = handleApiError(status, errorText)
  /\ UNCHANGED <<vars, authVars, screenVars, soslVars, rankVars, extraVars, status, errorText,
                 payload, fetched>>

FetchNext == FetchSalesforceObjects \/ FetchObjectFields \/ HandleFetchError

FetchSpec == FetchInit /\ [][FetchNext]_allVars

\* C27: handleApiError never returns normally, whatever the status and the
\* body text: it throws; so for a response that is not ok
\* fetchSalesforceObjects and fetchObjectFields throw without parsing the
\* body as a success payload.
C27_AlwaysThrows ==
  /\ apiError # "returned"
  /\ (fetched # NotFetched /\ ~responseOk(status)) =>
       /\ ~fetched.parsed
       /\ fetched.outcome \in {"TokenExpiredError", "Error"}

\* fetchObjectFields has been called on a response that is not ok and whose
\* body makes the try/catch block of handleApiError throw nothing
C27_Witness ==
  /\ fetched.fn = "fetchObjectFields"
  /\ status = 404
  /\ errorText.json /\ errorText.message = "" /\ errorText.errorCode = "NOT_FOUND"
  /\ fetched.outcome = "Error"

\* C14: for a response that is not ok, handleApiError throws
\* TokenExpiredError when the status is 401 or the first error of the body
\* has the errorCode INVALID_SESSION_ID, whatever else the body holds, and a
\* generic Error for every other response.
C14_SessionMarkerThrowsTokenExpired ==
  apiError # "none" =>
    apiError = IF \/ status = 401
                  \/ errorText.json /\ errorText.errorCode = "INVALID_SESSION_ID"
               THEN "TokenExpiredError" ELSE "Error"


(***************************************************************************)
(* The auth service: SecureStore and the OAuth endpoints.  The value under *)
(* TOKENS_KEY is [raw |-> "none"], [raw |-> "corrupt"] (a text that is no  *)
(* JSON object with the two token strings) or a Tokens record with         *)
(* raw = "tokens".                                                         *)
(***************************************************************************)
\* the 5 minute buffer of isTokenExpired, in milliseconds
BufferMs == 5 * 60 * 1000

\* expires_in of the tokens the server issues, in seconds
ExpiresIn == 7200

Tokens(n, t, exp) ==
  [raw |-> "tokens", accessToken |-> "at" \o Num(n), refreshToken |-> "rt" \o Num(n),
   issuedAt |-> t, expiresIn |-> exp,
   authHost |-> "https://login.salesforce.com",
   instanceUrl |-> "https://org.my.salesforce.com"]

\* Variant of isTokenExpired: no buffer
isTokenExpiredAtExpiry(tokens, t) ==
  t >= tokens.issuedAt + (tokens.expiresIn * 1000)

\* isTokenExpired(tokens), with t the value of Date.now()
isTokenExpired(tokens, t) ==
  LET expiresAt == tokens.issuedAt + (tokens.expiresIn * 1000)
  IN  t >= (expiresAt - BufferMs)

\* getStoredTokens(): the tokens it returns and the store it leaves
getStoredTokens(store) ==
  CASE store.raw = "none"    -> [tokens |-> NoTokens, store |-> store]
    [] store.raw = "corrupt" -> [tokens |-> NoTokens, store |-> NoTokens]
    [] OTHER                 -> [tokens |-> store, store |-> store]

\* what the token endpoint, or the lookup of the OAuth configuration before
\* it, does to a refresh
RefreshResponses ==
  {[kind |-> "ok", refresh_token |-> rt] : rt \in {"", "rotated"}}
    \cup {[kind |-> "http"], [kind |-> "reject"], [kind |-> "noconfig"]}

\* refreshSalesforceToken(): whether it threw, the tokens it returned and
\* the store it leaves; n numbers the access token the server issues
refreshSalesforceToken(store, reply, t, n) ==
  CASE store.raw = "none" ->
         [threw |-> TRUE, tokens |-> NoTokens, store |-> store]
    [] store.raw = "corrupt" ->
         [threw |-> TRUE, tokens |-> NoTokens, store |-> NoTokens]
    [] OTHER ->
         CASE reply.kind \in {"noconfig", "reject"} ->
                [threw |-> TRUE, tokens |-> NoTokens, store |-> store]
           [] reply.kind = "http" ->
                [threw |-> TRUE, tokens |-> NoTokens, store |-> NoTokens]
           [] OTHER ->
                LET updated ==
                      [store EXCEPT
                         !.accessToken = "at" \o Num(n),
                         !.refreshToken = IF reply.refresh_token # ""
                                          THEN reply.refresh_token ELSE @,
                         !.expiresIn = ExpiresIn,
                         !.issuedAt = t]
                IN  [threw |-> FALSE, tokens |-> updated, store |-> updated]

\* how the revoke request ends: a response (of any status) or a rejection
RevokeResponses == {"ok", "http", "reject"}

\* Variant of revokeSalesforceToken: the tokens stay in the store when the
\* revoke request fails
revokeUnlessFailed(store, reply) ==
  IF reply = "ok" THEN NoTokens ELSE store

\* revokeSalesforceToken(): the store it leaves
revokeSalesforceToken(store, reply) ==
  CASE store.raw = "none"    -> store
    [] store.raw = "corrupt" -> NoTokens
    [] OTHER                 -> \* the request is not awaited for its outcome
                                NoTokens

UserInfoResponses ==
  {[kind |-> "ok"], [kind |-> "reject"],
   [kind |-> "http", status |-> 401, errorText |-> "Unauthorized"],
   [kind |-> "http", status |-> 403, errorText |-> "Forbidden"],
   [kind |-> "http", status |-> 500, errorText |-> "Server Error"]}

\* fetchUserInfo(instanceUrl, accessToken): the user, or the message of the
\* error it throws
fetchUserInfo(instanceUrl, accessToken, reply) ==
  IF instanceUrl = "" \/ accessToken = ""
  THEN [ok |-> FALSE, userInfo |-> "null",
        message |-> "Missing instanceUrl or accessToken"]
  ELSE CASE reply.kind = "ok" ->
              [ok |-> TRUE, userInfo |-> "user", message |-> ""]
         [] reply.kind = "reject" ->
              [ok |-> FALSE, userInfo |-> "null", message |-> "Network request failed"]
         [] OTHER ->
              [ok |-> FALSE, userInfo |-> "null",
               message |->
                 IF reply.status = 401 \/ reply.status = 403
                 THEN "Failed to get user information: " \o Num(reply.status)
                 ELSE "Failed to get user information: " \o Num(reply.status)
                        \o " - " \o reply.errorText]

(***************************************************************************)
(* The auth provider.                                                      *)
(***************************************************************************)
\* bound: the access tokens the server issues
MaxTokens == 3

\* values of Date.now(), around the expiry of the stored tokens
Times == {0, 299999, 300000, 599999, 6899999, 6900000, 7200000}

StoredValues ==
  {NoTokens, [raw |-> "corrupt"], Tokens(1, 0, 600), Tokens(1, 0, ExpiresIn)}

LoggedOutState ==
  [accessToken |-> "null", refreshToken |-> "null", instanceUrl |-> "null",
   userInfo |-> "null", isAuthenticated |-> FALSE, isLoading |-> FALSE]

Authenticated(tokens, userInfo) ==
  [accessToken |-> tokens.accessToken, refreshToken |-> tokens.refreshToken,
   instanceUrl |-> tokens.instanceUrl, userInfo |-> userInfo,
   isAuthenticated |-> TRUE, isLoading |-> FALSE]

\* the variables that are no part of the auth provider
notAuth == <<vars, apiVars, screenVars, soslVars, rankVars, extraVars>>

AuthInit ==
  /\ SearchIdle
  /\ ApiIdle
  /\ ScreenIdle
  /\ SoslIdle
  /\ RankIdle
  /\ ExtraIdle
  /\ stored \in StoredValues
  /\ authState = InitialAuthState
  /\ now \in Times
  /\ nextToken = 2
  /\ lastOp = "none"
  /\ loadedAt = 0
  /\ loaded = NoTokens
  /\ refreshed = NoTokens
  /\ attempts = <<>>
  /\ recovered = "none"
  /\ apiResult = [attempt |-> 0, outcome |-> "none"]
  /\ revoked = "none"

callVars == <<attempts, recovered, apiResult>>
histVars == <<callVars, revoked>>

\* Variant of the updater: the state is left as it was
KeepLoading(state) == state

\* prev => ({ ...prev, isLoading: false })
NotLoading(state) == [state EXCEPT !.isLoading = FALSE]

\* loadStoredAuth() from the store and the state it finds, given what its
\* requests come to: [store, state, refreshed].  secureOk says whether the
\* SecureStore calls of revokeSalesforceToken succeed; when one throws, the
\* exception leaves the inner catch blocks and reaches the outer one.
loadStoredAuth(store, state, refreshResp, user1, user2, revokeResp, secureOk, t, n) ==
  LET g      == getStoredTokens(store)
      tokens == g.tokens
      r      == refreshSalesforceToken(g.store, refreshResp, t, n)
      \* await revokeSalesforceToken(); setAuthState({...})
      cleared(st, fresh) ==
        IF secureOk
        THEN [store |-> revokeSalesforceToken(st, revokeResp),
              state |-> LoggedOutState, refreshed |-> fresh]
        ELSE [store |-> st, state |-> NotLoading(state), refreshed |-> fresh]
      \* the outcome once refreshSalesforceToken has settled and the user
      \* is fetched with response u
      afterRefresh(u) ==
        IF r.threw THEN cleared(r.store, r.tokens)
        ELSE LET f == fetchUserInfo(r.tokens.instanceUrl, r.tokens.accessToken, u)
             IN  IF f.ok
                 THEN [store |-> r.store, state |-> Authenticated(r.tokens, f.userInfo),
                       refreshed |-> r.tokens]
                 ELSE cleared(r.store, r.tokens)
  IN  IF tokens = NoTokens
      THEN [store |-> g.store, state |-> NotLoading(state), refreshed |-> NoTokens]
      ELSE IF isTokenExpired(tokens, t)
      THEN afterRefresh(user1)
      ELSE LET f == fetchUserInfo(tokens.instanceUrl, tokens.accessToken, user1)
           IN  IF f.ok
               THEN [store |-> g.store, state |-> Authenticated(tokens, f.userInfo),
                     refreshed |-> NoTokens]
               ELSE IF indexOf(f.message, "403", 0) # -1
               THEN afterRefresh(user2)
               ELSE cleared(g.store, NoTokens)

\* loadStoredAuth() has run with the outcome out
Loaded(out) ==
  /\ lastOp = "none"
  /\ stored' = out.store
  /\ authState' = out.state
  /\ refreshed' = out.refreshed
  /\ nextToken' = IF out.refreshed # NoTokens THEN nextToken + 1 ELSE nextToken
  /\ loaded' = getStoredTokens(stored).tokens
  /\ loadedAt' = now
  /\ lastOp' = "loadStoredAuth"
  /\ UNCHANGED <<notAuth, now, histVars>>

\* loadStoredAuth(), run when the provider mounts, with a SecureStore that
\* works
LoadStoredAuth ==
  \E refreshResp \in RefreshResponses : \E user1, user2 \in UserInfoResponses :
  \E revokeResp \in RevokeResponses :
    Loaded(loadStoredAuth(stored, authState, refreshResp, user1, user2, revokeResp,
                          TRUE, now, nextToken))

\* loadStoredAuth(), whether its SecureStore calls succeed or not
LoadStoredAuthAnyStore ==
  \E refreshResp \in RefreshResponses : \E user1, user2 \in UserInfoResponses :
  \E revokeResp \in RevokeResponses : \E secureOk \in BOOLEAN :
    Loaded(loadStoredAuth(stored, authState, refreshResp, user1, user2, revokeResp,
                          secureOk, now, nextToken))

\* loadStoredAuth by itself, as the mount effect of the provider runs it
LoadNext == LoadStoredAuthAnyStore

LoadSpec == AuthInit /\ [][LoadNext]_allVars

\* C29: every execution of loadStoredAuth whose storage and network calls
\* settle ends with isLoading = false: without stored tokens, with valid
\* ones, with expired ones, after a failed refresh, after a failed user-info
\* request (403 or not) and after an exception that reaches the outer catch
\* block.
C29_LoadingEnds ==
  lastOp = "loadStoredAuth" => authState.isLoading = FALSE

\* a load whose refresh failed and whose clearing of the store threw: the
\* tokens are still stored and nothing but isLoading has changed
C29_Witness ==
  /\ lastOp = "loadStoredAuth"
  /\ loaded # NoTokens
  /\ stored = loaded
  /\ authState = NotLoading(InitialAuthState)
  /\ ~authState.isLoading

\* logout()
Logout ==
  \E revokeResp \in RevokeResponses :
    /\ lastOp # "none"
    /\ stored' = revokeSalesforceToken(stored, revokeResp)
    /\ authState' = LoggedOutState
    /\ lastOp' = "logout"
    /\ revoked' = IF stored.raw = "tokens" THEN revokeResp ELSE "none"
    /\ refreshed' = NoTokens
    /\ UNCHANGED <<notAuth, now, nextToken, loadedAt, loaded, callVars>>

\* login(instanceUrl): loginSalesforce stores the tokens it obtained after it
\* has fetched the user, or throws and stores nothing
Login ==
  \E ok \in BOOLEAN :
    /\ lastOp # "none"
    /\ ~authState.isAuthenticated
    /\ nextToken <= MaxTokens
    /\ IF ok
       THEN /\ stored' = Tokens(nextToken, now, ExpiresIn)
            /\ authState' = Authenticated(Tokens(nextToken, now, ExpiresIn), "user")
            /\ nextToken' = nextToken + 1
       ELSE UNCHANGED <<stored, authState, nextToken>>
    /\ lastOp' = "login"
    /\ refreshed' = NoTokens
    /\ UNCHANGED <<notAuth, now, loadedAt, loaded, histVars>>

\* outcomes of the wrapped call
ApiOutcomes == {"ok", "TokenExpiredError", "Error"}

\* handleTokenExpiredError(error) for a TokenExpiredError: refreshAccessToken,
\* and when that throws (after its own logout) the dialog, answered with
\* Cancel (logout) or Re-authorize (reauthorize, which succeeds or not)
handleTokenExpiredError(store, state, refreshResp, user, revokeResp, choice, reauthOk, t, n) ==
  LET r == refreshSalesforceToken(store, refreshResp, t, n)
      f == fetchUserInfo(r.tokens.instanceUrl, r.tokens.accessToken, user)
      loggedOut == revokeSalesforceToken(r.store, revokeResp)
  IN  IF ~r.threw
      THEN [success |-> TRUE, store |-> r.store, refreshed |-> r.tokens, issued |-> 1,
            events |-> <<"refreshAccessToken", "resolved">>,
            state |-> [state EXCEPT !.accessToken = r.tokens.accessToken,
                                    !.refreshToken = r.tokens.refreshToken,
                                    !.instanceUrl = r.tokens.instanceUrl,
                                    !.userInfo = IF f.ok THEN f.userInfo ELSE "null"]]
      ELSE IF choice = "Re-authorize" /\ reauthOk
      THEN [success |-> TRUE, store |-> Tokens(n, t, ExpiresIn), refreshed |-> NoTokens,
            events |-> <<"refreshAccessToken", "rejected", "Alert", "Re-authorize",
                         "reauthorize", "true">>,
            issued |-> 1, state |-> Authenticated(Tokens(n, t, ExpiresIn), "user")]
      ELSE [success |-> FALSE, store |-> loggedOut, refreshed |-> NoTokens,
            events |-> <<"refreshAccessToken", "rejected", "Alert">>
                         \o (IF choice = "Cancel" THEN <<"Cancel", "logout">>
                             ELSE <<"Re-authorize", "reauthorize", "false">>),
            issued |-> 0, state |-> LoggedOutState]

\* Variant of withTokenHandling: a TokenExpiredError is followed by a second
\* call whatever handleTokenExpiredError returned
withTokenHandlingRetrying(first, success, second) ==
  IF first = "TokenExpiredError"
  THEN [attempts |-> <<first, second>>, result |-> [attempt |-> 2, outcome |-> second]]
  ELSE [attempts |-> <<first>>, result |-> [attempt |-> 1, outcome |-> first]]

\* withTokenHandling(apiCall): the calls it made, with their outcomes, and the
\* call whose outcome it passed to its caller.  first and second are the
\* outcomes of the wrapped call, success what handleTokenExpiredError returns.
withTokenHandling(first, success, second) ==
  IF first = "ok"
  THEN [attempts |-> <<first>>, result |-> [attempt |-> 1, outcome |-> first]]
  ELSE IF first = "TokenExpiredError" /\ success
  THEN [attempts |-> <<first, second>>, result |-> [attempt |-> 2, outcome |-> second]]
  ELSE [attempts |-> <<first>>, result |-> [attempt |-> 1, outcome |-> first]]

\* withTokenHandling(apiCall) has settled: first and second are the outcomes
\* of the wrapped call, called says whether handleTokenExpiredError ran and
\* h is what it did
Settle(first, called, h, second) ==
  LET w == withTokenHandling(first, called /\ h.success, second)
  IN  /\ stored' = h.store
      /\ authState' = h.state
      /\ refreshed' = h.refreshed
      /\ nextToken' = nextToken + h.issued
      /\ recovered' = IF ~called THEN "none" ELSE IF h.success THEN "true" ELSE "false"
      /\ attempts' = w.attempts
      /\ apiResult' = w.result
      /\ lastOp' = "withTokenHandling"
      /\ UNCHANGED <<notAuth, now, loadedAt, loaded, revoked>>

\* withTokenHandling(apiCall) called by a screen.  The answers of the remote
\* side that the run does not ask for are left out of the choice.
WithTokenHandling ==
  /\ lastOp # "none"
  /\ authState.isAuthenticated
  /\ nextToken <= MaxTokens
  /\ \/ \E first \in ApiOutcomes \ {"TokenExpiredError"} :
          Settle(first, FALSE,
                 [success |-> FALSE, store |-> stored, refreshed |-> NoTokens,
                  events |-> <<>>, issued |-> 0, state |-> authState], first)
     \/ \E refreshReply \in {r \in RefreshResponses : r.kind = "ok"} :
        \E user \in UserInfoResponses : \E second \in ApiOutcomes :
          Settle("TokenExpiredError", TRUE,
                 handleTokenExpiredError(stored, authState, refreshReply, user,
                                         "ok", "Cancel", FALSE, now, nextToken),
                 second)
     \/ \E refreshReply \in {r \in RefreshResponses : r.kind # "ok"} :
        \E revokeReply \in RevokeResponses :
        \E choice \in {"Cancel", "Re-authorize"} : \E reauthOk \in BOOLEAN :
        \E second \in ApiOutcomes :
          /\ choice = "Cancel" => ~reauthOk
          /\ ~reauthOk => second = "ok"
          /\ Settle("TokenExpiredError", TRUE,
                    handleTokenExpiredError(stored, authState, refreshReply,
                                            [kind |-> "ok"], revokeReply, choice,
                                            reauthOk, now, nextToken),
                    second)

\* Variant of the test: every error is taken for an expired token
instanceofAnyError(error) == TRUE

\* error instanceof TokenExpiredError
instanceofTokenExpiredError(error) == error = "TokenExpiredError"

\* handleTokenExpiredError(error) called by itself with the outcome h of its
\* body for an expired token
Handle(error, h) ==
  /\ lastOp # "none"
  /\ handling = NotHandled
  /\ nextToken <= MaxTokens
  /\ LET out == IF instanceofTokenExpiredError(error) THEN h
                ELSE [success |-> FALSE, store |-> stored, refreshed |-> NoTokens,
                      events |-> <<>>, issued |-> 0, state |-> authState]
     IN  /\ stored' = out.store
         /\ authState' = out.state
         /\ refreshed' = out.refreshed
         /\ nextToken' = nextToken + out.issued
         /\ handling' = [error |-> error, events |-> out.events,
                         success |-> out.success]
         /\ lastOp' = "handleTokenExpiredError"
  /\ UNCHANGED <<vars, apiVars, screenVars, soslVars, rankVars, fieldVars, calls,
                 now, loadedAt, loaded, histVars>>

HandleTokenExpiredError ==
  \E error \in {"TokenExpiredError", "Error"} :
    \/ \E refreshReply \in {r \in RefreshResponses : r.kind = "ok"} :
       \E user \in UserInfoResponses :
         Handle(error, handleTokenExpiredError(stored, authState, refreshReply, user,
                                               "ok", "Cancel", FALSE, now, nextToken))
    \/ \E refreshReply \in {r \in RefreshResponses : r.kind # "ok"} :
       \E revokeReply \in RevokeResponses :
       \E choice \in {"Cancel", "Re-authorize"} : \E reauthOk \in BOOLEAN :
         Handle(error, handleTokenExpiredError(stored, authState, refreshReply,
                                               [kind |-> "ok"], revokeReply, choice,
                                               reauthOk, now, nextToken))

\* time passes
Tick ==
  /\ \E t \in Times : t > now /\ now' = t
  /\ UNCHANGED <<notAuth, stored, authState, nextToken, lastOp, loadedAt,
                 loaded, refreshed, histVars>>

AuthNext ==
  \/ LoadStoredAuth
  \/ Logout
  \/ Login
  \/ WithTokenHandling
  \/ Tick

AuthSpec == AuthInit /\ [][AuthNext]_allVars

\* the provider with handleTokenExpiredError called by itself
HandleNext ==
  \/ LoadStoredAuth
  \/ Login
  \/ HandleTokenExpiredError
  \/ Tick

HandleSpec == AuthInit /\ [][HandleNext]_allVars

\* the k-th thing the call did
Event(k) == IF k <= Len(handling.events) THEN handling.events[k] ELSE "none"

C15_AtMostOneRetry ==
  lastOp = "withTokenHandling" =>
    /\ Len(attempts) \in {1, 2}
    /\ Len(attempts) = 2 =>
         attempts[1] = "TokenExpiredError" /\ recovered = "true"
    /\ recovered # "none" => attempts[1] = "TokenExpiredError"
    /\ apiResult = [attempt |-> Len(attempts), outcome |-> attempts[Len(attempts)]]

\* a second attempt that threw TokenExpiredError again, after a recovery by
\* refresh
C15_Witness ==
  /\ lastOp = "withTokenHandling"
  /\ attempts = <<"TokenExpiredError", "TokenExpiredError">>
  /\ refreshed # NoTokens
  /\ apiResult.outcome = "TokenExpiredError"


MaxSearches == 2

\* texts typed into the input
Queries == {"", "o", "on", " on ", "flow"}

\* what searchSalesforce resolves with for a query: a list that depends on
\* the query
SearchResultsFor(query) ==
  <<[id |-> "apex-class-" \o query, type |-> "apex-class", name |-> query]>>

\* mutationFn(query) when it resolves
mutationFn(query) ==
  IF query = "" \/ Len(query) < 2 THEN <<>> ELSE SearchResultsFor(query)

ScreenInit ==
  /\ SearchIdle
  /\ ApiIdle
  /\ AuthIdle
  /\ ScreenIdle
  /\ SoslIdle
  /\ RankIdle
  /\ ExtraIdle

notScreen == <<vars, apiVars, authVars, soslVars, rankVars, extraVars>>

\* handleSearchChange(text)
HandleSearchChange ==
  \E text \in Queries :
    /\ searchQuery' = text
    /\ UNCHANGED <<notScreen, mutations, searchResults, hasSearched, selectedFilters>>

\* handleSearch(), from the button or from onSubmitEditing of the input
HandleSearch ==
  /\ Len(mutations) < MaxSearches
  /\ Len(trim(searchQuery)) >= 2
  /\ mutations' = Append(mutations, [query |-> trim(searchQuery), status |-> "pending"])
  /\ UNCHANGED <<notScreen, searchQuery, searchResults, hasSearched, selectedFilters>>

\* the k-th mutation settles: mutationFn resolved (onSuccess) or
\* searchSalesforce threw (onError)
MutationSettles(k) ==
  /\ k \in 1..Len(mutations)
  /\ mutations[k].status = "pending"
  /\ \E ok \in BOOLEAN :
       /\ mutations' = [mutations EXCEPT ![k].status = IF ok THEN "success" ELSE "error"]
       /\ searchResults' = IF ok THEN mutationFn(mutations[k].query) ELSE <<>>
  /\ hasSearched' = TRUE
  /\ UNCHANGED <<notScreen, searchQuery, selectedFilters>>

\* the keys of METADATA_TYPES
METADATA_TYPES == <<"all", "apex-class", "apex-trigger", "flow", "validation-rule",
                    "lwc-bundle", "aura-bundle", "page-layout", "record-type">>

\* number of specific types whose filter pill is pressed
MaxFilterKeys == 3

FilterKeys == {METADATA_TYPES[i] : i \in 1..Min(MaxFilterKeys + 1, Len(METADATA_TYPES))}

\* prev.includes(filterKey)
includes(list, x) == \E i \in 1..Len(list) : list[i] = x

\* prev.filter(f => f !== filterKey)
without(list, x) == LET keep(f) == f # x IN SelectSeq(list, keep)

\* Variant of toggleFilter: selecting a specific type keeps 'all'
toggleFilterKeepingAll(prev, filterKey) ==
  IF filterKey = "all" THEN <<"all">>
  ELSE LET newFilters == IF includes(prev, filterKey)
                         THEN without(prev, filterKey)
                         ELSE Append(prev, filterKey)
       IN  IF Len(newFilters) = 0 THEN <<"all">> ELSE newFilters

\* the updater toggleFilter gives setSelectedFilters
toggleFilter(prev, filterKey) ==
  IF filterKey = "all" THEN <<"all">>
  ELSE LET newFilters == IF includes(prev, filterKey)
                         THEN without(prev, filterKey)
                         ELSE Append(without(prev, "all"), filterKey)
       IN  IF Len(newFilters) = 0 THEN <<"all">> ELSE newFilters

\* a filter pill is pressed
ToggleFilter ==
  \E filterKey \in FilterKeys :
    /\ selectedFilters' = toggleFilter(selectedFilters, filterKey)
    /\ UNCHANGED <<notScreen, searchQuery, mutations, searchResults, hasSearched>>

\* the "Clear filters" button, shown with the results when a filter is set
ClearFilters ==
  /\ hasSearched
  /\ Len(selectedFilters) > 1 \/ ~includes(selectedFilters, "all")
  /\ selectedFilters' = <<"all">>
  /\ UNCHANGED <<notScreen, searchQuery, mutations, searchResults, hasSearched>>

ScreenNext ==
  \/ HandleSearchChange
  \/ HandleSearch
  \/ \E k \in 1..MaxSearches : MutationSettles(k)
  \/ ToggleFilter
  \/ ClearFilters

ScreenSpec == ScreenInit /\ [][ScreenNext]_allVars

\* C16: once two searches submitted from the screen have both settled, the
\* displayed results are those of the search submitted later, whichever of
\* the two completed last.
C16_LaterSearchDisplayed ==
  (/\ Len(mutations) = 2
   /\ \A k \in 1..Len(mutations) : mutations[k].status # "pending") =>
    searchResults = IF mutations[2].status = "success"
                    THEN mutationFn(mutations[2].query) ELSE <<>>


\* C30: after any sequence of toggleFilter calls selectedFilters is
\* non-empty and contains 'all' only as its sole element; a call either
\* yields exactly ['all'] (toggling 'all', or deselecting the last specific
\* type), or appends a specific type that was not selected, or removes one
\* that was.
C30_FiltersWellFormed ==
  /\ [](/\ selectedFilters # <<>>
        /\ includes(selectedFilters, "all") => selectedFilters = <<"all">>)
  /\ [][\/ selectedFilters' = <<"all">>
        \/ \E key \in FilterKeys \ {"all"} :
             /\ ~includes(selectedFilters, key)
             /\ selectedFilters' = Append(without(selectedFilters, "all"), key)
        \/ \E key \in FilterKeys \ {"all"} :
             /\ includes(selectedFilters, key)
             /\ selectedFilters' = without(selectedFilters, key)
             /\ selectedFilters' # <<>>]_selectedFilters

\* two specific types are selected, the one first in the list selected last
C30_Witness ==
  /\ Len(selectedFilters) = 2
  /\ selectedFilters[2] = "apex-class"


(***************************************************************************)
(* escapeSOSL by itself.                                                   *)
(***************************************************************************)
\* Variant of Reserved: the backslash is left out
ReservedNoBackslash ==
  {"?", "&", "|", "!", "{", "}", "[", "]", "(", ")", "^", "~", "*", ":",
   "\"", "'", "+", "-"}

\* the character class of the regular expression
Reserved ==
  {"\\", "?", "&", "|", "!", "{", "}", "[", "]", "(", ")", "^", "~", "*", ":",
   "\\", "\"", "'", "+", "-"}

\* input.replace(/([...])/g, "\\$1")
RECURSIVE escapeSOSL(_)
escapeSOSL(str) ==
  IF str = "" THEN ""
  ELSE LET c == CharAt(str, 0)
       IN  (IF c \in Reserved THEN "\\" \o c ELSE c)
             \o escapeSOSL(Substring(str, 1, Len(str)))

\* bound: the length of the terms
MaxTermLen == 2

\* the characters of the terms: the 19 reserved ones and four others
TermChars ==
  {"?", "&", "|", "!", "{", "}", "[", "]", "(", ")", "^", "~", "*", ":", "\\",
   "\"", "'", "+", "-", "a", "1", " ", "/"}

RECURSIVE TermsUpTo(_)
TermsUpTo(n) ==
  IF n = 0 THEN {""}
  ELSE LET shorter == TermsUpTo(n - 1)
       IN  shorter \cup {t \o c : t \in shorter, c \in TermChars}

\* a term with each reserved character once
AllReservedOnce == "?&|!{}[]()^~*:\\\"'+-"

SoslInit ==
  /\ SearchIdle
  /\ ApiIdle
  /\ AuthIdle
  /\ ScreenIdle
  /\ RankIdle
  /\ ExtraIdle
  /\ input \in TermsUpTo(MaxTermLen) \cup {AllReservedOnce, "a-b c"}
  /\ escaped = <<>>

EscapeSOSL ==
  /\ escaped = <<>>
  /\ escaped' = <<escapeSOSL(input)>>
  /\ UNCHANGED <<vars, apiVars, authVars, screenVars, rankVars, extraVars, input>>

SoslNext == EscapeSOSL

SoslSpec == SoslInit /\ [][SoslNext]_allVars

\* the 19 reserved characters
ReservedChars ==
  {"?", "&", "|", "!", "{", "}", "[", "]", "(", ")", "^", "~", "*", ":", "\\",
   "\"", "'", "+", "-"}

\* str is made of reserved characters behind one backslash each and of other
\* characters
RECURSIVE WellEscaped(_)
WellEscaped(str) ==
  IF str = "" THEN TRUE
  ELSE IF CharAt(str, 0) = "\\"
  THEN /\ Len(str) >= 2
       /\ CharAt(str, 1) \in ReservedChars
       /\ WellEscaped(Substring(str, 2, Len(str)))
  ELSE /\ CharAt(str, 0) \notin ReservedChars
       /\ WellEscaped(Substring(str, 1, Len(str)))

\* str without the backslash of each pair of a backslash and a character
RECURSIVE DropBackslashes(_)
DropBackslashes(str) ==
  IF str = "" THEN ""
  ELSE IF CharAt(str, 0) = "\\"
  THEN CharAt(str, 1) \o DropBackslashes(Substring(str, 2, Len(str)))
  ELSE CharAt(str, 0) \o DropBackslashes(Substring(str, 1, Len(str)))

\* C17: the string escapeSOSL returns has every reserved character of the
\* term behind exactly one backslash and every other character as it is, and
\* dropping the backslash of each pair recovers the term.
C17_EscapeRoundTrip ==
  escaped # <<>> =>
    /\ WellEscaped(escaped[1])
    /\ DropBackslashes(escaped[1]) = input
    /\ Len(escaped[1]) =
         Len(input) + Cardinality({i \in 1..Len(input) : CharAt(input, i - 1) \in ReservedChars})

\* the term with each reserved character once has been escaped
C17_Witness ==
  /\ input = AllReservedOnce
  /\ escaped # <<>>
  /\ Len(escaped[1]) = 38


(***************************************************************************)
(* The end of searchCodeContent by itself: de-duplication, ranking and     *)
(* truncation of a results array with more entries than the org of Spec    *)
(* gives.                                                                  *)
(***************************************************************************)
\* bound: the entries of the results array that have different names
MaxEntries == 53

Sizes == {0, 1, 2, ResultLimit - 1, ResultLimit, ResultLimit + 1, MaxEntries}

\* the k-th name: two lower-case letters, in dictionary order with k
NameOf(k) == Letters[((k - 1) \div 26) + 1] \o Letters[((k - 1) % 26) + 1]

\* the number of matches of the k-th entry pushed, in four patterns
Weight(pattern, k, n) ==
  CASE pattern = 1 -> 1
    [] pattern = 2 -> (k % 3) + 1
    [] pattern = 3 -> IF 2 * k <= n THEN 1 ELSE 2
    [] OTHER       -> (k % 2) + 1

\* an entry as the Apex class branch pushes it, with tm matches
Entry(name, tm, snippet) ==
  [id |-> "apex-class-" \o name, type |-> "apex-class", name |-> name,
   label |-> name, fileName |-> name \o ".cls",
   matches |-> [i \in 1..tm |->
                  [line |-> i, content |-> Num(i) \o ": on", snippet |-> snippet,
                   context |-> "Line " \o Num(i) \o " (apex-class)"]],
   totalMatches |-> tm]

\* a results array of n entries of different names, pushed in the order of
\* their names or against it, followed (dup) by a second entry for each of
\* the first two names
Collected(n, pattern, rev, dup) ==
  [k \in 1..n |-> Entry(NameOf(IF rev THEN n + 1 - k ELSE k), Weight(pattern, k, n), "on")]
    \o (IF dup /\ n >= 2
        THEN <<Entry(NameOf(1), 1, "On"), Entry(NameOf(2), 1, "On")>>
        ELSE <<>>)

RankInit ==
  /\ SearchIdle
  /\ ApiIdle
  /\ AuthIdle
  /\ ScreenIdle
  /\ SoslIdle
  /\ ExtraIdle
  /\ collected \in {Collected(n, pattern, rev, dup) :
                      n \in Sizes, pattern \in 1..4, rev \in BOOLEAN, dup \in BOOLEAN}
  /\ finalList = <<>>

\* lines 1336-1385 of searchCodeContent
RankAndSlice ==
  /\ finalList = <<>>
  /\ finalList' = <<Finalize(collected)>>
  /\ UNCHANGED <<vars, apiVars, authVars, screenVars, soslVars, extraVars, collected>>

RankNext == RankAndSlice

RankSpec == RankInit /\ [][RankNext]_allVars

\* a ranks before b, or as b
RanksBefore(a, b) ==
  \/ a.totalMatches > b.totalMatches
  \/ a.totalMatches = b.totalMatches /\ localeCompare(a.name, b.name) <= 0

\* C18: the returned list has at most 50 entries; when more than 50 distinct
\* items match it has 50 entries, all of them different items, in ranking
\* order (totalMatches descending, name ascending), and every item left out
\* ranks behind the last of them.
C18_TopFifty ==
  finalList # <<>> =>
    LET list  == finalList[1]
        items == uniqueResults(collected, <<>>)
    IN  /\ Len(list) <= 50
        /\ Len(items) > 50 =>
             /\ Len(list) = 50
             /\ \A j \in 1..49 : RanksBefore(list[j], list[j + 1])
             /\ \A i, j \in 1..50 : list[i].id = list[j].id => i = j
             /\ \A k \in 1..Len(items) :
                  \/ \E j \in 1..50 : list[j] = items[k]
                  \/ RanksBefore(list[50], items[k])

\* more than 50 items with different numbers of matches, two of them merged,
\* pushed against the order of their names
C18_Witness ==
  /\ finalList # <<>>
  /\ Len(collected) > 52
  /\ Len(finalList[1]) = 50
  /\ finalList[1][1].totalMatches > finalList[1][50].totalMatches
  /\ collected[1].name = NameOf(Len(collected) - 2)


(***************************************************************************)
(* fetchFieldMetadata: nine lookups one after the other, each in its own   *)
(* try block, then the reduction of refs by id.                            *)
(***************************************************************************)
\* the lookups in source order
Lookups == <<"sosl", "apexClass", "apexTrigger", "aura", "lwc", "flow",
             "validationRule", "recordType", "layout">>

fieldName  == "email"
objectName == "Account"

\* Records a lookup can find.  Name stands for the name field the lookup
\* selects (Name, DeveloperName, MasterLabel, ValidationName).
FieldRecords(lookup) ==
  CASE lookup = "sosl" ->
         <<[type |-> "ApexClass", Id |-> "c1", Name |-> "EmailService"],
           [type |-> "ApexTrigger", Id |-> "t1", Name |-> "EmailTrigger"],
           [type |-> "Flow", Id |-> "f1", Name |-> "Email flow"]>>
    [] lookup = "apexClass" ->
         <<[Id |-> "c1", Name |-> "EmailService"],
           [Id |-> "c2", Name |-> "EmailUtil"],
           [Id |-> "c1", Name |-> "EmailService"]>>
    [] lookup = "apexTrigger" -> <<[Id |-> "t1", Name |-> "EmailTrigger"]>>
    [] lookup = "aura" -> <<[Id |-> "a1", Name |-> ""]>>
    [] lookup = "lwc" -> <<[Id |-> "a1", Name |-> "emailForm"]>>
    [] lookup = "flow" -> <<[Id |-> "f1", Name |-> "Email flow"],
                            [Id |-> "f2", Name |-> "Welcome"],
                            [Id |-> "f3", Name |-> ""]>>
    [] lookup = "validationRule" -> <<[Id |-> "v1", Name |-> "Email_Required"]>>
    [] lookup = "recordType" ->
         <<[Id |-> "r1", Name |-> "Email", SobjectType |-> "Account"]>>
    [] lookup = "layout" ->
         <<[Id |-> "r1", Name |-> "Email Layout", TableEnumOrId |-> "Account"]>>

\* What the request of a lookup can come to: a 2xx response whose JSON has
\* the record array, a 2xx response whose JSON has none ("norecords") or
\* whose body is no JSON ("nojson"), a response that is not ok, and a
\* request that rejects
LookupResponses(lookup) ==
  {[kind |-> "ok", records |-> FieldRecords(lookup)],
   [kind |-> "ok", records |-> <<>>],
   [kind |-> "norecords"], [kind |-> "nojson"],
   [kind |-> "http401"], [kind |-> "http500"], [kind |-> "reject"]}

MetadataReference(id, file, type, context) ==
  [id |-> id, fileName |-> file, type |-> type,
   references |-> << [line |-> 1, snippet |-> "..." \o fieldName \o "...",
                      context |-> context] >>]

\* r.DeveloperName || 'Aura'
OrElse(name, fallback) == IF name = "" THEN fallback ELSE name

\* the reference the lookup pushes for the record r, <<>> if it pushes none
RECURSIVE PushRefs(_, _)
PushRefs(lookup, records) ==
  IF records = <<>> THEN <<>>
  ELSE LET r == Head(records)
           pushed ==
             CASE lookup = "sosl" ->
                    IF r.type = "ApexClass"
                    THEN <<MetadataReference("apex-class-" \o r.Id, r.Name \o ".cls",
                             "Apex Class", "Found via SOSL")>>
                    ELSE IF r.type = "ApexTrigger"
                    THEN <<MetadataReference("apex-trigger-" \o r.Id,
                             r.Name \o ".trigger", "Apex Trigger", "Found via SOSL")>>
                    ELSE <<>>
               [] lookup = "apexClass" ->
                    <<MetadataReference("apex-class-" \o r.Id, r.Name \o ".cls",
                        "Apex Class", "Tooling: ApexClass.Name LIKE")>>
               [] lookup = "apexTrigger" ->
                    <<MetadataReference("apex-trigger-" \o r.Id, r.Name \o ".trigger",
                        "Apex Trigger", "Tooling: ApexTrigger.Name LIKE")>>
               [] lookup = "aura" ->
                    <<MetadataReference("aura-" \o r.Id, OrElse(r.Name, "Aura") \o ".cmp",
                        "Aura Bundle", "Tooling: AuraDefinitionBundle.DeveloperName LIKE")>>
               [] lookup = "lwc" ->
                    <<MetadataReference("lwc-" \o r.Id, OrElse(r.Name, "lwc") \o ".js",
                        "LWC Bundle",
                        "Tooling: LightningComponentBundle.DeveloperName LIKE")>>
               [] lookup = "flow" ->
                    IF r.Name # ""
                       /\ indexOf(toLowerCase(r.Name), toLowerCase(fieldName), 0) # -1
                    THEN <<MetadataReference("flow-" \o r.Id,
                             OrElse(r.Name, "Flow") \o ".flow", "Flow",
                             "Flow: MasterLabel contains term")>>
                    ELSE <<>>
               [] lookup = "validationRule" ->
                    <<MetadataReference("vr-" \o r.Id,
                        objectName \o "." \o r.Name \o ".validationRule",
                        "Validation Rule", "Tooling: ValidationRule.ValidationName LIKE")>>
               [] lookup = "recordType" ->
                    <<MetadataReference("recordtype-" \o r.Id,
                        r.SobjectType \o "." \o r.Name \o ".recordType",
                        "Record Type", "Standard API: RecordType.Name LIKE")>>
               [] lookup = "layout" ->
                    <<MetadataReference("layout-" \o r.Id,
                        r.TableEnumOrId \o "." \o r.Name \o ".layout",
                        "Page Layout", "Tooling: Layout.Name LIKE")>>
       IN  pushed \o PushRefs(lookup, Tail(records))

\* One lookup with its try block: [threw, pushed].  The helper toolingQuery
\* gives no records for a response that is not ok and throws when the
\* request rejects or the body is no JSON; the loops over the records throw
\* when the JSON has no record array, except the SOSL one, which tests it.
\* Whatever is thrown is caught by the catch block of the lookup, so threw
\* is FALSE on every path.
LookupStep(lookup, reply) ==
  LET raised == \/ reply.kind \in {"reject", "nojson"}
                \/ reply.kind = "norecords" /\ lookup # "sosl"
      caught == TRUE
  IN  [threw  |-> raised /\ ~caught,
       pushed |-> IF reply.kind = "ok" THEN PushRefs(lookup, reply.records)
                  ELSE <<>>]

\* Variant of the reduction: nothing is merged
uniqueRefsUnmerged(list, acc) == acc \o list

\* refs.reduce(...): a reference whose id is in acc already has its
\* references appended to those of the entry with that id
RECURSIVE uniqueRefs(_, _)
uniqueRefs(list, acc) ==
  IF list = <<>> THEN acc
  ELSE LET current == Head(list)
           hits    == {k \in 1..Len(acc) : acc[k].id = current.id}
       IN  uniqueRefs(Tail(list),
             IF hits = {} THEN Append(acc, current)
             ELSE LET existingIndex == CHOOSE k \in hits : \A j \in hits : k <= j
                  IN  [acc EXCEPT ![existingIndex].references =
                         @ \o current.references])

FieldInit ==
  /\ SearchIdle
  /\ ApiIdle
  /\ AuthIdle
  /\ ScreenIdle
  /\ SoslIdle
  /\ RankIdle
  /\ handling = NotHandled
  /\ calls = <<>>
  /\ fieldPc = 1
  /\ refs = <<>>
  /\ failures = {}
  /\ metadata = <<>>

notField == <<vars, apiVars, authVars, screenVars, soslVars, rankVars, handling, calls>>

\* the request of the current lookup settles and its try block ends
Lookup ==
  /\ fieldPc \in 1..Len(Lookups)
  /\ \E reply \in LookupResponses(Lookups[fieldPc]) :
       LET step == LookupStep(Lookups[fieldPc], reply)
       IN  /\ refs' = refs \o step.pushed
           /\ failures' = IF reply.kind = "ok" THEN failures
                          ELSE failures \cup {reply.kind}
           /\ IF step.threw
              THEN fieldPc' = 12
              ELSE fieldPc' = fieldPc + 1
  /\ metadata' = metadata
  /\ UNCHANGED notField

\* the reduction by id and the return
FieldReturn ==
  /\ fieldPc = Len(Lookups) + 1
  /\ fieldPc' = 11
  /\ metadata' = <<uniqueRefs(refs, <<>>)>>
  /\ UNCHANGED <<notField, refs, failures>>

FieldNext == Lookup \/ FieldReturn

FieldSpec == FieldInit /\ [][FieldNext]_allVars

\* the references pushed for one id, in the order pushed
RECURSIVE ReferencesOf(_, _)
ReferencesOf(id, list) ==
  IF list = <<>> THEN <<>>
  ELSE (IF Head(list).id = id THEN Head(list).references ELSE <<>>)
         \o ReferencesOf(id, Tail(list))

\* C28: fetchFieldMetadata resolves, whatever lookups fail and however
\* (a response that is not ok, 401 included, a body without records, a
\* rejected request); the list it returns has pairwise distinct ids, holds
\* every id pushed, and an entry has the references of the findings with its
\* id, in lookup order.
C28_ResolvesWithDistinctIds ==
  /\ fieldPc # 12
  /\ metadata # <<>> =>
       LET list == metadata[1]
       IN  /\ \A i, j \in 1..Len(list) : list[i].id = list[j].id => i = j
           /\ \A k \in 1..Len(refs) : \E i \in 1..Len(list) : list[i].id = refs[k].id
           /\ \A i \in 1..Len(list) :
                list[i].references = ReferencesOf(list[i].id, refs)

\* a call has returned after a 401, a rejected request and a body without
\* records, with an entry merged from three findings
C28_Witness ==
  /\ metadata # <<>>
  /\ {"http401", "reject", "norecords"} \subseteq failures
  /\ \E i \in 1..Len(metadata[1]) : Len(metadata[1][i].references) = 3


(***************************************************************************)
(* The provider functions running concurrently: a call runs up to the      *)
(* request it awaits, and goes on when that request settles.               *)
(***************************************************************************)
\* bound: the calls made
MaxCalls == 3

\* logout() and clearAllData() up to the revoke request: without stored
\* tokens revokeSalesforceToken returns at once and the state is reset
beginLogout(store, state) ==
  IF store = NoTokens
  THEN [pc |-> "done", store |-> store, state |-> LoggedOutState]
  ELSE [pc |-> "revoke", store |-> store, state |-> state]

\* Variant of the catch block of refreshAccessToken: the error is rethrown
\* at once
catchRethrowing(store, state) == [pc |-> "done", store |-> store, state |-> state]

\* the catch block of refreshAccessToken: await logout(); throw error
catchRefreshError(store, state) == beginLogout(store, state)

NewCall(op, at) ==
  [op |-> op, pc |-> at, failed |-> FALSE, closure |-> authState,
   existing |-> NoTokens, tokens |-> NoTokens]

provIdle == <<vars, apiVars, screenVars, soslVars, rankVars, fieldVars, handling,
              now, lastOp, loadedAt, loaded, refreshed, histVars>>

\* loadStoredAuth has completed: nothing stored and logged out, or tokens
\* stored and authenticated with them
ProviderInit ==
  /\ SearchIdle
  /\ ApiIdle
  /\ ScreenIdle
  /\ SoslIdle
  /\ RankIdle
  /\ FieldIdle
  /\ handling = NotHandled
  /\ calls = <<>>
  /\ stored \in {NoTokens, Tokens(1, 0, ExpiresIn)}
  /\ authState = IF stored = NoTokens THEN LoggedOutState
                 ELSE Authenticated(stored, "user")
  /\ now = 0
  /\ nextToken = 2
  /\ lastOp = "loadStoredAuth"
  /\ loadedAt = 0
  /\ loaded = NoTokens
  /\ refreshed = NoTokens
  /\ attempts = <<>>
  /\ recovered = "none"
  /\ apiResult = [attempt |-> 0, outcome |-> "none"]
  /\ revoked = "none"

\* refreshAccessToken() is called: refreshSalesforceToken reads the store
\* and throws without tokens, else sends the request
CallRefresh ==
  /\ Len(calls) < MaxCalls
  /\ IF stored = NoTokens
     THEN LET c == catchRefreshError(stored, authState)
          IN  /\ calls' = Append(calls, [NewCall("refreshAccessToken", c.pc)
                                           EXCEPT !.failed = TRUE])
              /\ authState' = c.state
     ELSE /\ calls' = Append(calls, [NewCall("refreshAccessToken", "token")
                                       EXCEPT !.existing = stored])
          /\ authState' = authState
  /\ UNCHANGED <<provIdle, stored, nextToken>>

\* logout() or clearAllData() is called
CallLogout ==
  \E op \in {"logout", "clearAllData"} :
    /\ Len(calls) < MaxCalls
    /\ LET b == beginLogout(stored, authState)
       IN  /\ calls' = Append(calls, NewCall(op, b.pc))
           /\ authState' = b.state
    /\ UNCHANGED <<provIdle, stored, nextToken>>

\* login() or reauthorize() is called: loginSalesforce opens the browser
CallLogin ==
  \E op \in {"login", "reauthorize"} :
    /\ Len(calls) < MaxCalls
    /\ calls' = Append(calls, NewCall(op, "oauth"))
    /\ UNCHANGED <<provIdle, stored, authState, nextToken>>

\* the token request of the k-th call settles: refreshSalesforceToken
\* stores the updated tokens, or deletes the stored ones when the response
\* is not ok, or leaves the store alone; when it throws the catch block runs
TokenSettles(k) ==
  /\ k \in 1..Len(calls)
  /\ calls[k].pc = "token"
  /\ \E reply \in RefreshResponses :
       /\ reply.kind = "ok" => nextToken <= MaxTokens
       /\ LET r == refreshSalesforceToken(calls[k].existing, reply, now, nextToken)
              written == IF reply.kind \in {"ok", "http"} THEN r.store ELSE stored
              c == catchRefreshError(written, authState)
          IN  IF r.threw
              THEN /\ calls' = [calls EXCEPT ![k].pc = c.pc, ![k].failed = TRUE]
                   /\ stored' = c.store
                   /\ authState' = c.state
                   /\ nextToken' = nextToken
              ELSE /\ calls' = [calls EXCEPT ![k].pc = "user", ![k].tokens = r.tokens]
                   /\ stored' = written
                   /\ authState' = authState
                   /\ nextToken' = nextToken + 1
  /\ UNCHANGED provIdle

\* the user-info request of the k-th call settles, and refreshAccessToken
\* sets the state it closed over with the refreshed tokens
UserSettles(k) ==
  /\ k \in 1..Len(calls)
  /\ calls[k].pc = "user"
  /\ \E user \in UserInfoResponses :
       LET t == calls[k].tokens
           f == fetchUserInfo(t.instanceUrl, t.accessToken, user)
       IN  authState' = [calls[k].closure EXCEPT
                           !.accessToken = t.accessToken,
                           !.refreshToken = t.refreshToken,
                           !.instanceUrl = t.instanceUrl,
                           !.userInfo = IF f.ok THEN f.userInfo ELSE "null"]
  /\ calls' = [calls EXCEPT ![k].pc = "done"]
  /\ UNCHANGED <<provIdle, stored, nextToken>>

\* the revoke request of the k-th call settles, however: the stored tokens
\* are deleted and the state is reset (then refreshAccessToken rethrows)
RevokeSettles(k) ==
  /\ k \in 1..Len(calls)
  /\ calls[k].pc = "revoke"
  /\ calls' = [calls EXCEPT ![k].pc = "done"]
  /\ stored' = NoTokens
  /\ authState' = LoggedOutState
  /\ UNCHANGED <<provIdle, nextToken>>

\* loginSalesforce of the k-th call settles: with the tokens stored, and the
\* state set from them, or with an error
OAuthSettles(k) ==
  /\ k \in 1..Len(calls)
  /\ calls[k].pc = "oauth"
  /\ \E ok \in BOOLEAN :
       /\ ok => nextToken <= MaxTokens
       /\ calls' = [calls EXCEPT ![k].pc = "done", ![k].failed = ~ok]
       /\ IF ok
          THEN /\ stored' = Tokens(nextToken, now, ExpiresIn)
               /\ authState' = Authenticated(Tokens(nextToken, now, ExpiresIn), "user")
               /\ nextToken' = nextToken + 1
          ELSE UNCHANGED <<stored, authState, nextToken>>
  /\ UNCHANGED provIdle

ProviderNext ==
  \/ CallRefresh
  \/ CallLogout
  \/ CallLogin
  \/ \E k \in 1..MaxCalls : TokenSettles(k)
  \/ \E k \in 1..MaxCalls : UserSettles(k)
  \/ \E k \in 1..MaxCalls : RevokeSettles(k)
  \/ \E k \in 1..MaxCalls : OAuthSettles(k)

ProviderSpec == ProviderInit /\ [][ProviderNext]_allVars

\* C22: for every interleaving of logout() with a refreshAccessToken() call
\* already in flight, once both have completed the store holds no tokens
\* and the state is unauthenticated.
C22_LogoutWinsOverRefresh ==
  (/\ Len(calls) = 2
   /\ calls[1].op = "refreshAccessToken" /\ calls[1].existing # NoTokens
   /\ calls[2].op = "logout"
   /\ calls[1].pc = "done" /\ calls[2].pc = "done") =>
    stored = NoTokens /\ ~authState.isAuthenticated

\* the k-th call, a refreshAccessToken(), rethrows in this step
Rethrows(k) ==
  /\ k \in 1..Len(calls')
  /\ calls'[k].op = "refreshAccessToken"
  /\ calls'[k].failed /\ calls'[k].pc = "done"
  /\ k \in 1..Len(calls) => calls[k].pc # "done"

C26_AuthenticatedIffToken ==
  /\ authState.isAuthenticated <=> authState.accessToken # "null"
  /\ authState.isAuthenticated =>
       authState.instanceUrl # "null" /\ authState.refreshToken # "null"

====
